---------------------------- MODULE Spec2Model ----------------------------
(***************************************************************************)
(* The resilient HTTP client of src/src/utils/api_client.py (APIClient):   *)
(* retry with backoff, failure streak and circuit breaker.                 *)
(*                                                                         *)
(* One client instance is shared by the callers in `callers`.  The client  *)
(* holds no lock, so every read and every write of _failure_count and      *)
(* _circuit_open_until is a step of its own and the steps of different     *)
(* callers interleave freely; `x += 1` is a read followed by a write, and  *)
(* inside one condition or expression each read of a field and each call   *)
(* of time.monotonic() is a step, in the order Python evaluates them.      *)
(* A verb call whose request cannot be built (lines 141, 143) raises       *)
(* before the loop.                                                        *)
(*                                                                         *)
(* time.monotonic() is the variable `now`, in whole cooldown units; it is  *)
(* positive and only grows.  The sentinel 0.0 of _circuit_open_until is 0. *)
(* urlopen is the environment: each invocation yields one of `remote`, a   *)
(* body or an exception.                                                   *)
(*                                                                         *)
(* A header dict is a function from header names to values.  Delays are    *)
(* whole numbers of a time unit in which backoff_factor and jitter are     *)
(* given; random.uniform(0, jitter) is a choice from 0..jitter.            *)
(*                                                                         *)
(* The cache of src/src/utils/cache.py (Cache) is modelled beside it.  A   *)
(* dict is a sequence of entries in insertion order, which is the order    *)
(* min() scans.  time.time() is the variable `wall`; it advances at any    *)
(* moment or stays where it is (two readings of a coarse clock can be      *)
(* equal).  Every call of time.time() is a step: set and cleanup_expired   *)
(* read the clock before they take the lock, set and get read it twice     *)
(* while they hold it.  Between two readings of a thread that holds the    *)
(* lock the clock advances and the other threads read it and wait for the  *)
(* lock; what touches _cache and _access_order runs under the lock.        *)
(*                                                                         *)
(* The emitter of src/src/core/events.py (EventEmitter) is modelled for    *)
(* one event: on, off, remove_all_listeners and the copy at the head of    *)
(* emit run under self._lock and are one step each; emit calls the         *)
(* listeners of its copy outside the lock, one step per call, so the emits *)
(* of two threads interleave.  A listener returns, raises an Exception     *)
(* (caught on line 75) or raises a BaseException that is none, which ends  *)
(* the emit.                                                               *)
(***************************************************************************)
EXTENDS Integers, Sequences, FiniteSets, TLC

\* ------------------------------------------------------------------ bounds
MaxRetries   == 2    \* max_retries ranges over 0..MaxRetries
MaxThreshold == 3    \* circuit_breaker_threshold ranges over 1..MaxThreshold
MaxReset     == 2    \* circuit_breaker_reset ranges over 0..MaxReset
MaxTime      == 3    \* the clock stops advancing at MaxTime
ConcRetries   == 1   \* the same bounds with two concurrent callers
ConcThreshold == 2
ConcReset     == 1
ConcTime      == 2
SharedRetries   == 1 \* the configuration of the small two-caller specification
SharedThreshold == 2
MaxFactor == 2       \* backoff_factor ranges over 0..MaxFactor
MaxJitter == 1       \* jitter ranges over 0..MaxJitter
MaxSize == 2         \* max_size ranges over 0..MaxSize (0: no limit)
MaxWall == 2         \* time.time() stops advancing at MaxWall
MaxListeners == 2    \* on and once are not called on a list of MaxListeners
MaxOnce == 1         \* once is called MaxOnce times

\* Racing callers can drive _failure_count past the threshold without limit (a stale
\* read written back after another caller's reset).  The remote is bounded instead:
\* an exchange fails only while the failures that line 71 has still to count cannot
\* take the streak past StreakCap, which is above every threshold.
StreakCap == 4

Threads == {1, 2}

\* ------------------------------------------------- the transport's outcomes
\* What one urlopen(...) + response.read().decode('utf-8') + json.loads can yield.
\*   ok_body   2xx, a non-empty well-formed JSON body
\*   ok_empty  2xx, an empty body
\*   bad_json  2xx, a non-empty UTF-8 body json.loads rejects (json.JSONDecodeError,
\*             raised on line 152, after the reset of line 150)
\*   not_utf8  2xx, a body that is not valid UTF-8: decode raises UnicodeDecodeError
\*             on line 149, before the reset of line 150
\*   URLError  no response obtained
\*   HTTP404 / HTTP503  urllib.error.HTTPError with that code
\*   TimeoutError  an exception that is no URLError, raised by urlopen (148) or by
\*             response.read() (149): a socket timeout while the response is awaited
\*             or read; any other OSError raised there behaves alike
Responses == {"ok_body", "ok_empty", "bad_json", "not_utf8"}
Raised    == {"URLError", "HTTP404", "HTTP503", "TimeoutError"}
Outcomes  == Responses \cup Raised

\* Line 149: the bodies response.read().decode('utf-8') returns.
Decoded == {"ok_body", "ok_empty", "bad_json"}

\* The exception that leaves lines 148-149 for an outcome that is not Decoded.
ErrorOf(o) == IF o = "not_utf8" THEN "UnicodeDecodeError" ELSE o

\* The exceptions the except clause of line 154 catches and line 157 re-raises.
ExchangeErrors == Raised \cup {"UnicodeDecodeError", "JSONDecodeError"}

\* The exceptions of lines 141 (json.dumps) and 143 (Request), raised before the loop.
BuildErrors == {"TypeError", "ValueError"}

\* The exceptions a call can end with, besides CircuitBreakerOpen.
Errors == ExchangeErrors \cup BuildErrors

\* The base_url arguments of the constructor, and the type (scheme) that
\* urllib.request.Request finds in the URL built from one: Request raises
\* ValueError("unknown url type") for a URL without a scheme.
BaseURLs == {"http://example.com", "example.com"}
url_type(base_url) == IF base_url = "http://example.com" THEN "http" ELSE "none"

\* The data arguments of post and put (get and delete pass None), and what
\* json.dumps accepts: a set inside the dict makes it raise TypeError.
DataArgs == {"None", "dict", "dict_with_set"}
serializable(data) == data # "dict_with_set"

\* isinstance(error, URLError): HTTPError is a subclass of URLError.
IsURLError(error) == error \in {"URLError", "HTTP404", "HTTP503"}

\* isinstance(error, HTTPError)
IsHTTPError(error) == error \in {"HTTP404", "HTTP503"}

\* error.code of an HTTPError
Code(error) == IF error = "HTTP404" THEN 404 ELSE IF error = "HTTP503" THEN 503 ELSE 0

VARIABLES
  max_retries,                \* self.max_retries
  circuit_breaker_threshold,  \* self.circuit_breaker_threshold
  circuit_breaker_reset,      \* self.circuit_breaker_reset
  failure_count,              \* self._failure_count
  circuit_open_until,         \* self._circuit_open_until, 0 = 0.0 (not open)
  backoff_factor,             \* self.backoff_factor
  jitter,                     \* self.jitter
  default_headers,            \* self.default_headers
  args,                       \* what the callers pass: base_url and headers to
                              \* __init__, headers and data to the verbs, tokens to
                              \* set_auth_token
  now,                        \* time.monotonic()
  call,                       \* per caller: position and locals of its operation
  env,                        \* the callers, what the remote may answer, the limits
  hist,                       \* history: counters the claims are stated with
  cache,                      \* the Cache object: max_size, _cache, _access_order
  wall,                       \* time.time()
  waiting,                    \* per thread: the operation of the cache it is in
                              \* (op), between two of its steps: "set" and
                              \* "cleanup_expired" after the clock reading `time`
                              \* and before the lock, "set81" and "get55" holding
                              \* the lock before the clock reading of that line
                              \* for `key`
  cache_hist,                 \* history of the cache: true order of last accesses,
                              \* the last operation and the keys before it
  listeners,                  \* self._listeners[event] of the EventEmitter
  emitting,                   \* per thread: position and locals of its emit
  events_hist                 \* history of the emitter: once registered, the calls
                              \* of its callback, emits that overlapped

vars == << max_retries, circuit_breaker_threshold, circuit_breaker_reset,
           backoff_factor, jitter, default_headers, args,
           failure_count, circuit_open_until, now, call, env, hist,
           cache, wall, waiting, cache_hist, listeners, emitting, events_hist >>

\* The emitter.
events == << listeners, emitting, events_hist >>

\* The cache.
the_cache == << cache, wall, waiting, cache_hist >>

\* The objects beside the client.
others == << the_cache, events >>

\* The state of the client.
client == << max_retries, circuit_breaker_threshold, circuit_breaker_reset,
            backoff_factor, jitter, default_headers, args,
            failure_count, circuit_open_until, now, call, env, hist >>

\* What only __init__ and set_auth_token write, and what no operation of the client
\* touches.
config == << max_retries, circuit_breaker_threshold, circuit_breaker_reset,
            backoff_factor, jitter, default_headers, args, env, others >>

\* ------------------------------------------------------------ header dicts
\* {} ; a headers argument of None behaves like {} at lines 45 and 135 (both falsy).
EmptyMap == [k \in {} |-> ""]

\* The literal of lines 45-48.
StdHeaders ==
  [k \in {"Content-Type", "Accept"} |-> "application/json"]

\* dict.update: d.copy() updated with u
Updated(d, u) ==
  [k \in DOMAIN d \cup DOMAIN u |-> IF k \in DOMAIN u THEN u[k] ELSE d[k]]

\* bool(d) of a dict or None
Truthy(d) == DOMAIN d # {}

\* A caller that is in no operation.  Beside the locals of the code (pc, op, attempt,
\* tmp, error, body, final, ret, snap_*) it carries the history of its operation:
\*   inv, sleeps   transport invocations and backoff sleeps of this call
\*   first         the outcome of its first exchange
\*   all_transport every exchange so far succeeded or failed with a connectivity
\*                 error (a URLError that is no HTTPError, a raw timeout)
\*   all_retryable every exchange so far failed with an error the retry policy
\*                 calls retryable: a connectivity error or a 5xx
\*   recs          _record_failure calls of this call that have returned
\*   rec_from      failure_streak when its last _record_failure was entered
\*   pre_fc, pre_until   the resilience state when the operation began
\*   seen_fc, seen_until the resilience state when the body of its last response
\*                 had been read and decoded (line 149)
\*   t60           the clock at its circuit check (line 60)
\*   headers       the headers argument of the verb
\*   request_headers  the dict of lines 134-136, given to Request(...) at 143
\*   built_from    self.default_headers as line 134 copied it
\*   sent          the headers of the request of its last transport invocation
\*   auth_since    set_auth_token ran after line 134 of this call
\*   delay         the delay of its last backoff sleep
\*   during_sleep  the call began while another caller was suspended in a backoff
\*                 sleep, and that sleep has not ended yet
\*   admitted      how the circuit check let it through (see Admit)
\*   clock         the value of the time.monotonic() call the statement it is in
\*                 has made (0 outside such a statement)
\*   until         the self._circuit_open_until that line 128 read
\*   open_seen     the circuit_open_until its circuit check found still open
\*   remaining     the remaining seconds its CircuitBreakerOpen carries
\*   changed       circuit_open_until was no longer open_seen when line 128 read it
\*   log           the events self.logger received from this operation, in order,
\*                 since the circuit check and then since the start of the
\*                 current attempt
Idle ==
  [ pc |-> "idle", op |-> "none", attempt |-> 0, tmp |-> 0, error |-> "none",
    body |-> "none", final |-> FALSE, ret |-> "none",
    inv |-> 0, sleeps |-> 0, first |-> "none", all_transport |-> TRUE,
    all_retryable |-> TRUE, recs |-> 0, rec_from |-> 0,
    pre_fc |-> 0, pre_until |-> 0, seen_fc |-> 0, seen_until |-> 0,
    t60 |-> 0, admitted |-> "none",
    headers |-> EmptyMap, request_headers |-> EmptyMap, built_from |-> EmptyMap,
    sent |-> EmptyMap, auth_since |-> FALSE, delay |-> 0, during_sleep |-> FALSE,
    open_seen |-> 0, remaining |-> 0, changed |-> FALSE, log |-> << >>,
    clock |-> 0, until |-> 0,
    snap_fc |-> 0, snap_until |-> 0, snap_open |-> FALSE ]

\* History of a freshly constructed client.
\*   fresh_calls     completed verb calls of a client with retries disabled, while
\*                   every one of them failed with an error raised by the transport
\*                   (-1 once one ended otherwise, once more than
\*                   circuit_breaker_threshold have failed, and after the first
\*                   call of a client with max_retries > 0)
\*   fresh_inv       transport invocations so far, while fresh_calls counts
\*   fresh_recorded  completed _record_failure calls, while no exchange has obtained
\*                   a response and the circuit has never opened (-1 afterwards)
\*   opened_at       the clock when line 77 last set the _circuit_open_until that
\*                   is stored now (0 when it is not set)
\*   trial           the caller whose circuit check cleared an expired cooldown and
\*                   whose first exchange has no recorded outcome yet (0: none)
\*   auth            the value the last set_auth_token stored ("none": never called)
\*   auth_log        the level of the event the last set_auth_token logged
NoHistory ==
  [ fresh_calls |-> 0, fresh_inv |-> 0, fresh_recorded |-> 0, opened_at |-> 0,
    trial |-> 0, auth |-> "none", auth_log |-> "none" ]

\* Variant: _circuit_open_until starts as the clock reading, not as the sentinel.
InitWith_clock(who, retries, thresholds, resets, remote, time) ==
  /\ max_retries \in retries
  /\ circuit_breaker_threshold \in thresholds
  /\ circuit_breaker_reset \in resets
  /\ failure_count = 0
  /\ now = 1
  /\ circuit_open_until = now
  /\ call = [t \in Threads |-> Idle]
  /\ env = [callers |-> who, remote |-> remote, max_time |-> time]
  /\ hist = NoHistory

\* APIClient.__init__: streak 0, circuit closed, no I/O.
InitWith(who, retries, thresholds, resets, remote, time) ==
  /\ max_retries \in retries
  /\ circuit_breaker_threshold \in thresholds
  /\ circuit_breaker_reset \in resets
  /\ failure_count = 0
  /\ circuit_open_until = 0
  /\ now = 1
  /\ call = [t \in Threads |-> Idle]
  /\ env = [callers |-> who, remote |-> remote, max_time |-> time]
  /\ hist = NoHistory

\* __init__, lines 45-48: headers or {...}
default_headers_of(headers) == IF Truthy(headers) THEN headers ELSE StdHeaders

\* APIClient.__init__, the part of the backoff parameters, the headers and the base
\* URL; the callers will pass one of call_headers and one of datas to a verb and
\* one of tokens (pairs << token_type, token >>) to set_auth_token.
InitPolicyWith(factors, jitters, header_args, call_headers, tokens, urls, datas) ==
  /\ backoff_factor \in factors
  /\ jitter \in jitters
  /\ \E h \in header_args : \E b \in urls :
       /\ args = [headers |-> h, call_headers |-> call_headers, tokens |-> tokens,
                  base_url |-> b, data |-> datas]
       /\ default_headers = default_headers_of(h)

\* The same for callers whose requests can all be built: a base URL with a scheme,
\* no data.
InitPolicy(factors, jitters, header_args, call_headers, tokens) ==
  InitPolicyWith(factors, jitters, header_args, call_headers, tokens,
                 {"http://example.com"}, {"None"})

\* Cache(default_ttl, max_size), lines 15-29
NewCache(max_size) ==
  [max_size |-> max_size, data |-> << >>, access_order |-> << >>]

\* No operation of the cache yet.
NoCacheOp ==
  [recency |-> << >>, op |-> "none", key |-> "none", present |-> FALSE,
   before |-> {}, lru |-> "none", distinct |-> TRUE]

\* A thread that is in no operation of the cache.
NotWaiting == [op |-> "none", time |-> 0, key |-> "none"]

\* A thread that is not inside emit.
NotEmitting == [pc |-> "idle", listeners |-> << >>, i |-> 0, count |-> 0]

\* What a call of a listener ends with: it returns, it raises an Exception, or it
\* raises a BaseException that is no Exception (SystemExit, KeyboardInterrupt,
\* GeneratorExit).
Listened == {"returned", "Exception", "BaseException"}

\* EventEmitter(), lines 14-18
NewEmitter ==
  /\ listeners = << >>
  /\ emitting = [t \in Threads |-> NotEmitting]
  /\ events_hist = [registered |-> 0, invoked |-> [n \in 1..MaxOnce |-> 0],
                    overlapped |-> FALSE]

\* The client specifications leave the other objects as constructed.
InitOthers ==
  /\ cache = NewCache(0)
  /\ wall = 0
  /\ waiting = [t \in Threads |-> NotWaiting]
  /\ cache_hist = NoCacheOp
  /\ NewEmitter

\* The headers arguments of the header specification.
HeaderArgs ==
  { EmptyMap,
    [k \in {"X-Api-Key"} |-> "k1"],
    [k \in {"Accept"} |-> "text/plain"] }

CallHeaders ==
  { EmptyMap,
    [k \in {"Accept"} |-> "text/csv"],
    [k \in {"Authorization", "X-Trace"} |-> IF k = "X-Trace" THEN "1" ELSE "Basic b"] }

Tokens == { << "Bearer", "t1" >>, << "Token", "t2" >> }

Init ==
  /\ InitWith({1}, 0..MaxRetries, 1..MaxThreshold, 0..MaxReset, Outcomes, MaxTime)
  /\ InitPolicyWith({1}, {0}, {EmptyMap}, {EmptyMap}, {}, BaseURLs, DataArgs)
  /\ InitOthers

InitConc ==
  /\ InitWith(Threads, 0..ConcRetries, 1..ConcThreshold, 0..ConcReset,
              {"ok_empty", "URLError"}, ConcTime)
  /\ InitPolicy({1}, {0}, {EmptyMap}, {EmptyMap}, {})
  /\ InitOthers

\* Two callers, one configuration, a cooldown of one clock unit.
InitShared ==
  /\ InitWith(Threads, {SharedRetries}, {SharedThreshold}, {1},
              {"ok_empty", "URLError"}, 2)
  /\ InitPolicy({1}, {0}, {EmptyMap}, {EmptyMap}, {})
  /\ InitOthers

\* One caller; every backoff_factor and jitter.
InitBackoff ==
  /\ InitWith({1}, {MaxRetries}, {MaxThreshold}, {1}, {"ok_body", "URLError"}, 2)
  /\ InitPolicy(0..MaxFactor, 0..MaxJitter, {EmptyMap}, {EmptyMap}, {})
  /\ InitOthers

\* One caller of the verbs, every headers argument, set_auth_token at any moment.
InitHeaders ==
  /\ InitWith({1}, {ConcRetries}, {ConcThreshold}, {ConcReset},
              {"ok_empty", "URLError"}, 2)
  /\ InitPolicy({1}, {0}, HeaderArgs, CallHeaders, Tokens)
  /\ InitOthers

\* ------------------------------------------------------------ pure helpers

\* APIClient._should_retry
should_retry(error) ==
  IF IsURLError(error) THEN TRUE
  ELSE IF IsHTTPError(error) /\ 500 =< Code(error) /\ Code(error) < 600 THEN TRUE
  ELSE FALSE

\* Variant: `>` for `>=` in line 76.
threshold_exceeded(count) == count > circuit_breaker_threshold

\* _record_failure, line 76: the streak has reached the threshold
threshold_reached(count) == count >= circuit_breaker_threshold

\* Variant: the cooldown is stored as a duration, not added to the clock.
cooldown_end_without_clock(clock) == circuit_breaker_reset

\* _record_failure, line 77: the end of the cooldown that starts at `clock`
cooldown_end(clock) == clock + circuit_breaker_reset

\* Variant: line 60 without the comparison with the clock.
still_open_without_clock(until, clock) == until # 0

\* Variant: the cooldown is taken to end one clock unit early.
still_open_one_early(until, clock) == until # 0 /\ clock + 1 < until

\* _circuit_is_open, line 60: set and still in the future
still_open(until, clock) == until # 0 /\ clock < until

\* _circuit_is_open, line 63: set and elapsed
cooldown_expired(until, clock) == until # 0 /\ clock >= until

\* Variant: the last allowed attempt is taken to be index max_retries + 1.
is_final_one_late(error, attempt) ==
  ~should_retry(error) \/ attempt = max_retries + 1

\* Variant: the last-attempt test of line 155 is missing.
is_final_by_error_only(error, attempt) == ~should_retry(error)

\* _make_request, line 155: the error propagates now
is_final(error, attempt) == ~should_retry(error) \/ attempt = max_retries

Set(t, r) == call' = [call EXCEPT ![t] = r]

\* The history that claims about one caller are stated with (the fresh-client
\* counters, the state before an operation, the clock of its circuit check) is kept
\* when the client has one caller.
OneCaller == Cardinality(env.callers) = 1

\* One call of self.logger.<level>(...): the event and the number its text carries.
Event(level, event, n) == [level |-> level, event |-> event, n |-> n]

\* The locals c of an operation after self.logger received e (the log, like the
\* rest of the history, is kept when the client has one caller).
Logged(c, e) == IF OneCaller THEN [c EXCEPT !.log = Append(@, e)] ELSE c

\* ------------------------------------------------------------- operations

\* A verb method (get/post/put/delete) enters _make_request.
StartCall(t) ==
  /\ t \in env.callers
  /\ call[t].pc = "idle"
  /\ \E h \in args.call_headers :
     Set(t, [Idle EXCEPT !.pc = "cio60", !.op = "request", !.headers = h,
                         !.during_sleep = \E u \in env.callers \ {t} :
                                             call[u].pc = "mr165",
                         !.pre_fc = IF OneCaller THEN failure_count ELSE 0,
                         !.pre_until = IF OneCaller THEN circuit_open_until ELSE 0])
  /\ UNCHANGED << config, failure_count, circuit_open_until, now, hist >>

\* get_resilience_state, line 243: 'failure_streak': self._failure_count
get_resilience_state_243(t) ==
  /\ t \in env.callers
  /\ call[t].pc = "idle"
  /\ Set(t, [Idle EXCEPT !.pc = "gs244", !.op = "state",
                         !.pre_fc = IF OneCaller THEN failure_count ELSE 0,
                         !.pre_until = IF OneCaller THEN circuit_open_until ELSE 0,
                         !.snap_fc = failure_count])
  /\ UNCHANGED << config, failure_count, circuit_open_until, now, hist >>

\* get_resilience_state, line 244: 'circuit_open_until': self._circuit_open_until
get_resilience_state_244(t) ==
  /\ call[t].pc = "gs244"
  /\ Set(t, [call[t] EXCEPT !.pc = "cio60", !.snap_until = circuit_open_until])
  /\ UNCHANGED << config, failure_count, circuit_open_until, now, hist >>

\* What follows _circuit_is_open() returning `open` in the operation of caller t:
\* _make_request raises at 128 or goes on to the loop; get_resilience_state returns.
AfterCircuitCheck(t, c, open) ==
  IF c.op = "state"
  THEN [c EXCEPT !.pc = "done", !.snap_open = open, !.ret = "state"]
  ELSE IF open THEN [c EXCEPT !.pc = "mr128", !.open_seen = circuit_open_until]
  ELSE [c EXCEPT !.pc = "mr134"]

\* History: how the circuit check let the request of caller t through: "trial" when
\* it cleared the expired cooldown itself, "during_trial" when another caller's trial
\* was pending at that moment, "closed" otherwise.
Admit(t, c, how) ==
  IF c.op # "request" THEN c
  ELSE [c EXCEPT !.admitted = IF hist.trial \notin {0, t} THEN "during_trial" ELSE how]

\* Variant: the circuit check waits while another caller is in its backoff sleep, as
\* it would if the sleep were taken inside a lock that guards the resilience state.
circuit_is_open_60_serialized(t) ==
  /\ call[t].pc = "cio60"
  /\ \A u \in env.callers \ {t} : call[u].pc # "mr165"
  /\ Set(t, IF circuit_open_until # 0
            THEN [call[t] EXCEPT !.pc = "cio60c"]
            ELSE [call[t] EXCEPT !.pc = "cio63", !.t60 = IF OneCaller THEN now ELSE 0])
  /\ UNCHANGED << config, failure_count, circuit_open_until, now, hist >>

\* _circuit_is_open, line 60, the left operand of `and`: self._circuit_open_until
\* is read and tested for truth
circuit_is_open_60(t) ==
  /\ call[t].pc = "cio60"
  /\ Set(t, IF circuit_open_until # 0
            THEN [call[t] EXCEPT !.pc = "cio60c"]
            ELSE [call[t] EXCEPT !.pc = "cio63", !.t60 = IF OneCaller THEN now ELSE 0])
  /\ UNCHANGED << config, failure_count, circuit_open_until, now, hist >>

\* _circuit_is_open, line 60, the right operand: time.monotonic() is called
circuit_is_open_60_clock(t) ==
  /\ call[t].pc = "cio60c"
  /\ Set(t, [call[t] EXCEPT !.pc = "cio60b", !.clock = now,
                            !.t60 = IF OneCaller THEN now ELSE 0])
  /\ UNCHANGED << config, failure_count, circuit_open_until, now, hist >>

\* _circuit_is_open, lines 60-61, the right operand: self._circuit_open_until is
\* read again and compared with the clock value; return True when it is above
circuit_is_open_60_compare(t) ==
  /\ call[t].pc = "cio60b"
  /\ LET c == [call[t] EXCEPT !.clock = 0]
     IN  IF still_open(circuit_open_until, call[t].clock)
         THEN Set(t, AfterCircuitCheck(t, c, TRUE))
         ELSE Set(t, [c EXCEPT !.pc = "cio63"])
  /\ UNCHANGED << config, failure_count, circuit_open_until, now, hist >>

\* _circuit_is_open, line 63, the left operand of `and` (and line 67 when it is
\* false): self._circuit_open_until is read and tested for truth
circuit_is_open_63(t) ==
  /\ call[t].pc = "cio63"
  /\ IF circuit_open_until # 0
     THEN Set(t, [call[t] EXCEPT !.pc = "cio63c"])
     ELSE Set(t, AfterCircuitCheck(t, Admit(t, call[t], "closed"), FALSE))
  /\ UNCHANGED << config, failure_count, circuit_open_until, now, hist >>

\* _circuit_is_open, line 63, the right operand: time.monotonic() is called
circuit_is_open_63_clock(t) ==
  /\ call[t].pc = "cio63c"
  /\ Set(t, [call[t] EXCEPT !.pc = "cio63b", !.clock = now])
  /\ UNCHANGED << config, failure_count, circuit_open_until, now, hist >>

\* _circuit_is_open, line 63, the right operand (and line 67): the clock value >=
\* self._circuit_open_until, read again (a value of 0.0 read here is passed)
circuit_is_open_63_compare(t) ==
  /\ call[t].pc = "cio63b"
  /\ LET c == [call[t] EXCEPT !.clock = 0]
     IN  IF call[t].clock >= circuit_open_until
         THEN Set(t, [c EXCEPT !.pc = "cio66"])
         ELSE Set(t, AfterCircuitCheck(t, Admit(t, c, "closed"), FALSE))
  /\ UNCHANGED << config, failure_count, circuit_open_until, now, hist >>

\* _circuit_is_open, lines 65-67: the cooldown expired, clear it (half-open)
circuit_is_open_66(t) ==
  /\ call[t].pc = "cio66"
  /\ circuit_open_until' = 0
  /\ Set(t, AfterCircuitCheck(t, Admit(t, Logged(call[t],
                Event("info", "cooldown_expired", 0)), "trial"), FALSE))
  /\ hist' = [hist EXCEPT !.opened_at = 0,
                          !.trial = IF call[t].op = "request" /\ @ = 0 THEN t ELSE @]
  /\ UNCHANGED << config, failure_count, now >>

\* Variant: the difference is not clamped at 0.
remaining_cooldown_unclamped(until, clock) == until - clock

\* _make_request, line 128: max(self._circuit_open_until - time.monotonic(), 0)
remaining_cooldown(until, clock) ==
  IF until - clock > 0 THEN until - clock ELSE 0

\* The locals of a call that raises CircuitBreakerOpen(remaining), lines 128-131:
\* the clock is read, after the field, and the difference is clamped.
Rejected(c) ==
  [c EXCEPT !.pc = "done", !.ret = "CircuitBreakerOpen",
            !.remaining = remaining_cooldown(c.until, now)]

\* Variant: the rejection restarts the cooldown.
make_request_128_restarting(t) ==
  /\ call[t].pc = "mr128"
  /\ circuit_open_until' = now + circuit_breaker_reset
  /\ Set(t, [call[t] EXCEPT !.pc = "mr128c", !.until = circuit_open_until,
                            !.changed = circuit_open_until # call[t].open_seen])
  /\ UNCHANGED << config, failure_count, now, hist >>

\* _make_request, line 128: self._circuit_open_until is read
make_request_128(t) ==
  /\ call[t].pc = "mr128"
  /\ Set(t, [call[t] EXCEPT !.pc = "mr128c", !.until = circuit_open_until,
                            !.changed = circuit_open_until # call[t].open_seen])
  /\ UNCHANGED << config, failure_count, circuit_open_until, now, hist >>

\* _make_request, lines 128-131: time.monotonic() is called, the difference is
\* clamped at 0, CircuitBreakerOpen is raised
make_request_128_clock(t) ==
  /\ call[t].pc = "mr128c"
  /\ Set(t, Rejected(call[t]))
  /\ UNCHANGED << config, failure_count, circuit_open_until, now, hist >>

\* The operation with locals c is a verb call that has passed line 143: its
\* request is built.
Built(c) ==
  /\ c.op = "request"
  /\ c.pc \notin {"idle", "cio60", "cio60c", "cio60b", "cio63", "cio63c", "cio63b",
                  "cio66", "mr128", "mr128c", "mr134"}
  /\ c.ret \notin BuildErrors \cup {"CircuitBreakerOpen"}

\* _make_request, lines 139-145, of a call with locals c and the argument `data`,
\* built_from and request_headers being the dicts of lines 134-136: json.dumps of a
\* truthy data (141) raises TypeError, Request (143) raises ValueError for a URL
\* without a scheme, both before the loop and outside its try; else the loop starts.
RequestBuilt(c, data, built_from, request_headers) ==
  IF data # "None" /\ ~serializable(data)
  THEN [c EXCEPT !.pc = "done", !.ret = "TypeError"]
  ELSE IF url_type(args.base_url) = "none"
  THEN [c EXCEPT !.pc = "done", !.ret = "ValueError"]
  ELSE [c EXCEPT !.pc = "mr148", !.attempt = 0, !.built_from = built_from,
                 !.request_headers = request_headers]

\* Variant: the per-call headers are written into self.default_headers itself.
make_request_134_in_place(t) ==
  /\ call[t].pc = "mr134"
  /\ default_headers' = IF Truthy(call[t].headers)
                        THEN Updated(default_headers, call[t].headers)
                        ELSE default_headers
  /\ \E data \in args.data :
       Set(t, RequestBuilt(call[t], data, default_headers, default_headers'))
  /\ UNCHANGED << max_retries, circuit_breaker_threshold, circuit_breaker_reset,
                  backoff_factor, jitter, args, env, others,
                  failure_count, circuit_open_until, now, hist >>

\* _make_request, lines 133-143: the request is built, once, before the loop
make_request_134(t) ==
  /\ call[t].pc = "mr134"
  /\ \E data \in args.data :
       Set(t, RequestBuilt(call[t], data, default_headers,
                           IF Truthy(call[t].headers)
                           THEN Updated(default_headers, call[t].headers)
                           ELSE default_headers))
  /\ UNCHANGED << config, failure_count, circuit_open_until, now, hist >>

\* Variant: the headers are taken from self.default_headers anew at every attempt.
request_of_attempt_rebuilt(t) ==
  IF Truthy(call[t].headers)
  THEN Updated(default_headers, call[t].headers) ELSE default_headers

\* The headers of `request`, the object line 143 built, which line 148 sends
request_of_attempt(t) == call[t].request_headers

\* The largest of a non-empty set of numbers.
Max(S) == CHOOSE x \in S : \A y \in S : y =< x

\* The callers with a failed exchange, or a body that will not parse, for which line
\* 71 has not read the streak yet.
Unrecorded ==
  {t \in env.callers :
     \/ call[t].pc \in {"mr155", "rf71r"}
     \/ /\ call[t].body = "bad_json"
        /\ call[t].pc \in {"rs86", "rs86u", "rs88", "rs89", "mr151"}}

\* The largest value line 71 can store while it counts the failures that have
\* occurred: the streak, or what a caller between the read and the write of line 71
\* is about to store, and one more for every failure not read for yet.
StreakAhead ==
  Max({failure_count}
      \cup {call[t].tmp + 1 : t \in {u \in env.callers : call[u].pc = "rf71w"}})
  + Cardinality(Unrecorded)

\* The bound of the remote: the outcome o is one it can give now.
Within(o) == o \in {"ok_body", "ok_empty"} \/ StreakAhead < StreakCap

\* _make_request, lines 147-148: the debug event and the call of urlopen, which
\* sends `request`; the exchange is outstanding until its outcome arrives
make_request_148(t) ==
  /\ call[t].pc = "mr148"
  /\ Set(t, [call[t] EXCEPT !.inv = @ + 1,
            !.log = IF OneCaller THEN << Event("debug", "attempt", 0) >> ELSE @,
            !.sent = request_of_attempt(t),
            !.pc = "mr149"])
  /\ hist' = [hist EXCEPT !.fresh_inv = IF @ = -1 \/ ~OneCaller THEN @ ELSE @ + 1]
  /\ UNCHANGED << config, failure_count, circuit_open_until, now >>

\* _make_request, lines 148-149: the outcome of the exchange, a body read and
\* decoded or an exception raised by urlopen, read or decode
make_request_149(t) ==
  /\ call[t].pc = "mr149"
  /\ \E o \in env.remote :
       /\ Within(o)
       /\ Set(t, [call[t] EXCEPT
                 !.first = IF @ = "none" THEN o ELSE @,
                 !.all_transport =
                    @ /\ o \in {"URLError", "TimeoutError", "ok_body", "ok_empty"},
                 !.all_retryable = @ /\ o \in {"URLError", "TimeoutError", "HTTP503"},
                 !.seen_fc = IF OneCaller /\ o \in Decoded THEN failure_count ELSE 0,
                 !.seen_until =
                    IF OneCaller /\ o \in Decoded THEN circuit_open_until ELSE 0,
                 !.pc = IF o \in Decoded THEN "rs86" ELSE "mr155",
                 !.body = IF o \in Decoded THEN o ELSE "none",
                 !.error = IF o \in Decoded THEN "none" ELSE ErrorOf(o)])
  /\ hist' = [hist EXCEPT !.fresh_recorded = IF call'[t].body # "none" THEN -1 ELSE @]
  /\ UNCHANGED << config, failure_count, circuit_open_until, now >>

\* The outcome of the first exchange of the pending trial call is now recorded.
TrialSettled(t, h) == IF h.trial = t THEN [h EXCEPT !.trial = 0] ELSE h

\* _reset_resilience_state, lines 86-87: the first operand of `or`
reset_resilience_state_86_count(t) ==
  /\ call[t].pc = "rs86"
  /\ Set(t, IF failure_count # 0
            THEN [Logged(call[t], Event("debug", "reset", 0)) EXCEPT !.pc = "rs88"]
            ELSE [call[t] EXCEPT !.pc = "rs86u"])
  /\ UNCHANGED << config, failure_count, circuit_open_until, now, hist >>

\* _reset_resilience_state, lines 86-87: the second operand of `or`
reset_resilience_state_86_until(t) ==
  /\ call[t].pc = "rs86u"
  /\ Set(t, IF circuit_open_until # 0
            THEN [Logged(call[t], Event("debug", "reset", 0)) EXCEPT !.pc = "rs88"]
            ELSE [call[t] EXCEPT !.pc = "rs88"])
  /\ UNCHANGED << config, failure_count, circuit_open_until, now, hist >>

\* _reset_resilience_state, line 88
reset_resilience_state_88(t) ==
  /\ call[t].pc = "rs88"
  /\ failure_count' = 0
  /\ Set(t, [call[t] EXCEPT !.pc = "rs89"])
  /\ UNCHANGED << config, circuit_open_until, now, hist >>

\* Variant: line 89 is missing, the cooldown survives a success.
reset_resilience_state_89_skipped(t) ==
  /\ call[t].pc = "rs89"
  /\ Set(t, [call[t] EXCEPT !.pc = "mr151"])
  /\ hist' = TrialSettled(t, hist)
  /\ UNCHANGED << config, failure_count, circuit_open_until, now >>

\* _reset_resilience_state, line 89
reset_resilience_state_89(t) ==
  /\ call[t].pc = "rs89"
  /\ circuit_open_until' = 0
  /\ Set(t, [call[t] EXCEPT !.pc = "mr151"])
  /\ hist' = TrialSettled(t, [hist EXCEPT !.opened_at = 0])
  /\ UNCHANGED << config, failure_count, now >>

\* Variant: an empty body is returned as None, as json.loads would be asked to.
make_request_151_null(t) ==
  /\ call[t].pc = "mr151"
  /\ Set(t, CASE call[t].body = "ok_body"  -> [call[t] EXCEPT !.pc = "done", !.ret = "payload"]
              [] call[t].body = "ok_empty" -> [call[t] EXCEPT !.pc = "done", !.ret = "None"]
              [] OTHER -> [call[t] EXCEPT !.pc = "mr155", !.error = "JSONDecodeError"])
  /\ UNCHANGED << config, failure_count, circuit_open_until, now, hist >>

\* _make_request, lines 151-153: json.loads of a non-empty body, {} for an empty one
make_request_151(t) ==
  /\ call[t].pc = "mr151"
  /\ Set(t, CASE call[t].body = "ok_body"  -> [call[t] EXCEPT !.pc = "done", !.ret = "payload"]
              [] call[t].body = "ok_empty" -> [call[t] EXCEPT !.pc = "done", !.ret = "empty_mapping"]
              [] OTHER -> [call[t] EXCEPT !.pc = "mr155", !.error = "JSONDecodeError"])
  /\ UNCHANGED << config, failure_count, circuit_open_until, now, hist >>

\* Variant: an error that propagates is raised without being recorded.
make_request_155_unrecorded(t) ==
  /\ call[t].pc = "mr155"
  /\ Set(t, IF is_final(call[t].error, call[t].attempt)
            THEN [call[t] EXCEPT !.pc = "done", !.final = TRUE, !.ret = call[t].error]
            ELSE [call[t] EXCEPT !.pc = "rf71r", !.final = FALSE])
  /\ UNCHANGED << config, failure_count, circuit_open_until, now, hist >>

\* _make_request, line 155: the condition, evaluated before _record_failure runs
make_request_155(t) ==
  /\ call[t].pc = "mr155"
  /\ Set(t, [call[t] EXCEPT !.pc = "rf71r",
                            !.final = is_final(call[t].error, call[t].attempt)])
  /\ UNCHANGED << config, failure_count, circuit_open_until, now, hist >>

\* _record_failure, line 71: the read of self._failure_count += 1
record_failure_71_read(t) ==
  /\ call[t].pc = "rf71r"
  /\ Set(t, [call[t] EXCEPT !.pc = "rf71w", !.tmp = failure_count,
                            !.rec_from = IF OneCaller THEN failure_count ELSE 0])
  /\ UNCHANGED << config, failure_count, circuit_open_until, now, hist >>

\* _record_failure, line 71: the write of self._failure_count += 1
record_failure_71_write(t) ==
  /\ call[t].pc = "rf71w"
  /\ failure_count' = call[t].tmp + 1
  /\ Set(t, [call[t] EXCEPT !.pc = "rf72", !.tmp = 0])
  /\ UNCHANGED << config, circuit_open_until, now, hist >>

\* _record_failure, lines 72-74: the warning, its text reading self._failure_count
record_failure_72(t) ==
  /\ call[t].pc = "rf72"
  /\ Set(t, [Logged(call[t], Event("warning", "failure", failure_count))
               EXCEPT !.pc = "rf76"])
  /\ UNCHANGED << config, failure_count, circuit_open_until, now, hist >>

\* Variant: the retry is started at once after the failure is recorded, without the
\* sleep of line 165.
AfterRecord_without_sleep(c) ==
  IF c.final THEN [c EXCEPT !.pc = "done", !.ret = c.error, !.recs = @ + 1]
  ELSE [c EXCEPT !.pc = "mr148", !.attempt = @ + 1, !.recs = @ + 1]

\* Variant: a call whose recorded failure finds the circuit open gives up with
\* CircuitBreakerOpen, instead of raising its own error or retrying.
AfterRecord_circuit_wins(c) ==
  IF still_open(circuit_open_until, now)
  THEN [c EXCEPT !.pc = "done", !.ret = "CircuitBreakerOpen", !.recs = @ + 1]
  ELSE IF c.final THEN [c EXCEPT !.pc = "done", !.ret = c.error, !.recs = @ + 1]
  ELSE [Logged(c, Event("warning", "retry", c.attempt + 1))
          EXCEPT !.pc = "mr165", !.recs = @ + 1]

\* What follows _record_failure in _make_request: raise (157), or the delay and the
\* warning of lines 160-164 and the sleep (165).
AfterRecord(c) ==
  IF c.final THEN [c EXCEPT !.pc = "done", !.ret = c.error, !.recs = @ + 1]
  ELSE [Logged(c, Event("warning", "retry", c.attempt + 1))
          EXCEPT !.pc = "mr165", !.recs = @ + 1]

\* The history of one completed _record_failure.
Recorded(t, h) ==
  TrialSettled(t, [h EXCEPT !.fresh_recorded =
     IF @ = -1 THEN -1 ELSE IF @ < circuit_breaker_threshold THEN @ + 1 ELSE @])

\* _record_failure, line 76
record_failure_76(t) ==
  /\ call[t].pc = "rf76"
  /\ IF threshold_reached(failure_count)
     THEN /\ Set(t, [call[t] EXCEPT !.pc = "rf77"])
          /\ UNCHANGED hist
     ELSE /\ Set(t, AfterRecord(call[t]))
          /\ hist' = Recorded(t, hist)
  /\ UNCHANGED << config, failure_count, circuit_open_until, now >>

\* _record_failure, line 77, the right-hand side: time.monotonic() is called
record_failure_77_clock(t) ==
  /\ call[t].pc = "rf77"
  /\ Set(t, [call[t] EXCEPT !.pc = "rf77w", !.clock = now])
  /\ UNCHANGED << config, failure_count, circuit_open_until, now, hist >>

\* _record_failure, line 77: clock value + circuit_breaker_reset is stored
record_failure_77(t) ==
  /\ call[t].pc = "rf77w"
  /\ circuit_open_until' = cooldown_end(call[t].clock)
  /\ Set(t, [call[t] EXCEPT !.pc = "rf78", !.clock = 0])
  /\ hist' = [hist EXCEPT !.fresh_recorded = -1, !.opened_at = call[t].clock]
  /\ UNCHANGED << config, failure_count, now >>

\* Variant: line 78 is missing, the streak survives the opening of the circuit.
record_failure_78_keeping(t) ==
  /\ call[t].pc = "rf78"
  /\ Set(t, AfterRecord(call[t]))
  /\ hist' = Recorded(t, hist)
  /\ UNCHANGED << config, failure_count, circuit_open_until, now >>

\* _record_failure, lines 78-82
record_failure_78(t) ==
  /\ call[t].pc = "rf78"
  /\ failure_count' = 0
  /\ Set(t, AfterRecord(Logged(call[t],
                Event("warning", "opened", circuit_breaker_threshold))))
  /\ hist' = Recorded(t, hist)
  /\ UNCHANGED << config, circuit_open_until, now >>

\* 2 ** attempt
RECURSIVE Pow2(_)
Pow2(n) == IF n = 0 THEN 1 ELSE 2 * Pow2(n - 1)

\* Variant: 2 * attempt for 2 ** attempt.
get_backoff_delay_product(attempt, u) == backoff_factor * (2 * attempt) + u

\* APIClient._get_backoff_delay, with u the value random.uniform(0, jitter) drew
get_backoff_delay(attempt, u) == backoff_factor * Pow2(attempt) + u

\* _make_request, lines 160-165 and the loop header 145: the delay, the sleep, the
\* next attempt; line 168 when the loop is exhausted.
make_request_165(t) ==
  /\ call[t].pc = "mr165"
  /\ \E u \in 0..jitter :
       LET c == [call[t] EXCEPT !.delay = get_backoff_delay(call[t].attempt, u),
                                !.sleeps = @ + 1]
           r == IF call[t].attempt + 1 < max_retries + 1
                THEN [c EXCEPT !.pc = "mr148", !.attempt = @ + 1]
                ELSE [c EXCEPT !.pc = "done", !.ret = "RuntimeError"]
       IN  call' = [x \in Threads |->
                      IF x = t THEN r ELSE [call[x] EXCEPT !.during_sleep = FALSE]]
  /\ UNCHANGED << config, failure_count, circuit_open_until, now, hist >>

\* The history of one completed verb call that ended with `ret`.
Completed(ret, h) ==
  IF ~OneCaller THEN h
  ELSE IF /\ h.fresh_calls # -1 /\ ret \in Raised /\ max_retries = 0
          /\ h.fresh_calls < circuit_breaker_threshold
  THEN [h EXCEPT !.fresh_calls = @ + 1]
  ELSE [h EXCEPT !.fresh_calls = -1, !.fresh_inv = -1]

\* The operation returns to (or raises into) its caller.
Return(t) ==
  /\ call[t].pc = "done"
  /\ Set(t, Idle)
  /\ hist' = IF call[t].op # "request" THEN hist
             ELSE TrialSettled(t, Completed(call[t].ret, hist))
  /\ UNCHANGED << config, failure_count, circuit_open_until, now >>

\* set_auth_token, line 237: f"{token_type} {token}"
auth_value(token, token_type) == token_type \o " " \o token

\* APIClient.set_auth_token, lines 237-238, called by a thread other than the callers
\* of the verbs.
set_auth_token(token, token_type) ==
  /\ default_headers' =
       Updated(default_headers,
               [k \in {"Authorization"} |-> auth_value(token, token_type)])
  /\ hist' = [hist EXCEPT !.auth = token_type \o " " \o token, !.auth_log = "info"]
  /\ call' = [t \in Threads |->
               IF Built(call[t]) THEN [call[t] EXCEPT !.auth_since = TRUE] ELSE call[t]]
  /\ UNCHANGED << max_retries, circuit_breaker_threshold, circuit_breaker_reset,
                  backoff_factor, jitter, args, env, others,
                  failure_count, circuit_open_until, now >>

\* time.monotonic() advances.
Tick ==
  /\ now < env.max_time
  /\ now' = now + 1
  /\ UNCHANGED << config, failure_count, circuit_open_until, call, hist >>

Next ==
  \/ Tick
  \/ \E t \in Threads :
       \/ StartCall(t)
       \/ get_resilience_state_243(t)
       \/ get_resilience_state_244(t)
       \/ circuit_is_open_60(t)
       \/ circuit_is_open_60_clock(t)
       \/ circuit_is_open_60_compare(t)
       \/ circuit_is_open_63(t)
       \/ circuit_is_open_63_clock(t)
       \/ circuit_is_open_63_compare(t)
       \/ circuit_is_open_66(t)
       \/ make_request_128(t)
       \/ make_request_128_clock(t)
       \/ make_request_134(t)
       \/ make_request_148(t)
       \/ make_request_149(t)
       \/ reset_resilience_state_86_count(t)
       \/ reset_resilience_state_86_until(t)
       \/ reset_resilience_state_88(t)
       \/ reset_resilience_state_89(t)
       \/ make_request_151(t)
       \/ make_request_155(t)
       \/ record_failure_71_read(t)
       \/ record_failure_71_write(t)
       \/ record_failure_72(t)
       \/ record_failure_76(t)
       \/ record_failure_77_clock(t)
       \/ record_failure_77(t)
       \/ record_failure_78(t)
       \/ make_request_165(t)
       \/ Return(t)

\* A step of the operation caller t is in.
CallerStep(t) ==
  \/ get_resilience_state_244(t)
  \/ circuit_is_open_60(t)
  \/ circuit_is_open_60_clock(t)
  \/ circuit_is_open_60_compare(t)
  \/ circuit_is_open_63(t)
  \/ circuit_is_open_63_clock(t)
  \/ circuit_is_open_63_compare(t)
  \/ circuit_is_open_66(t)
  \/ make_request_128(t)
  \/ make_request_128_clock(t)
  \/ make_request_134(t)
  \/ make_request_148(t)
  \/ make_request_149(t)
  \/ reset_resilience_state_86_count(t)
  \/ reset_resilience_state_86_until(t)
  \/ reset_resilience_state_88(t)
  \/ reset_resilience_state_89(t)
  \/ make_request_151(t)
  \/ make_request_155(t)
  \/ record_failure_71_read(t)
  \/ record_failure_71_write(t)
  \/ record_failure_72(t)
  \/ record_failure_76(t)
  \/ record_failure_77_clock(t)
  \/ record_failure_77(t)
  \/ record_failure_78(t)
  \/ make_request_165(t)
  \/ Return(t)

\* One caller at a time on the client.
Spec == Init /\ [][Next]_vars

\* Two callers sharing the client.
SpecConc == InitConc /\ [][Next]_vars

\* Two callers sharing the client, one configuration.
SpecShared == InitShared /\ [][Next]_vars

\* Two callers, one configuration; a caller inside an operation goes on: its
\* exchange (urlopen with a timeout) and its sleep (time.sleep of a finite delay)
\* complete, and nothing in the client makes a thread wait for another.
SpecSharedFair ==
  InitShared /\ [][Next]_vars /\ \A t \in Threads : WF_vars(CallerStep(t))

\* One caller, the backoff parameters varied.
SpecBackoff == InitBackoff /\ [][Next]_vars

\* The verbs and the auth helper.
NextHeaders ==
  \/ Next
  \/ \E a \in args.tokens : set_auth_token(a[2], a[1])

\* One caller of the verbs, header arguments varied, a thread setting auth tokens.
SpecHeaders == InitHeaders /\ [][NextHeaders]_vars

\* --------------------------------------------------------------- the cache

\* The keys and the ttl arguments the callers of the cache use; the callers of a
\* cache without a limit use two of the keys.
Keys == {"k1", "k2", "k3"}
KeysFor(c) == IF c.max_size = 0 THEN {"k1", "k2"} ELSE Keys
TTLs == {1, MaxWall + 1}

\* The keys of a dict.
KeysOf(d) == {d[i].key : i \in 1..Len(d)}

\* del d[k]
Without(d, k) == SelectSeq(d, LAMBDA e : e.key # k)

\* d[k] = e: a key already present keeps its place, a new one goes last.
Assigned(d, k, e) ==
  IF k \in KeysOf(d)
  THEN [i \in 1..Len(d) |-> IF d[i].key = k THEN e ELSE d[i]]
  ELSE Append(d, e)

\* d[k]
Lookup(d, k) == d[CHOOSE i \in 1..Len(d) : d[i].key = k]

\* min(d.keys(), key=...) over the values val[i] of the entries: the first key, in
\* the order of the dict, whose value is the smallest.
FirstMin(d, val) ==
  d[CHOOSE i \in 1..Len(d) :
      /\ \A j \in 1..Len(d) : val[i] =< val[j]
      /\ \A j \in 1..(i - 1) : val[j] > val[i]].key

\* Cache._evict_lru, lines 136-150, on the fields c of the cache
evict_lru(c) ==
  IF Len(c.access_order) = 0
  THEN IF Len(c.data) = 0 THEN c
       ELSE LET oldest_key ==
                  FirstMin(c.data, [i \in 1..Len(c.data) |-> c.data[i].created_at])
            IN  [c EXCEPT !.data = Without(@, oldest_key)]
  ELSE LET lru_key ==
             FirstMin(c.access_order,
                      [i \in 1..Len(c.access_order) |-> c.access_order[i].at])
       IN  [c EXCEPT !.data = Without(@, lru_key),
                     !.access_order = Without(@, lru_key)]

\* History: the keys of r that are still cached in d, then k as the latest access.
Accessed(r, d, k) ==
  SelectSeq(r, LAMBDA x : x \in KeysOf(d) /\ x # k) \o << k >>

\* History: the keys of r that are still cached in d.
Kept(r, d) == SelectSeq(r, LAMBDA x : x \in KeysOf(d))

\* History of a step that ends no set and leaves the order r of last accesses.
OtherOp(r) == [NoCacheOp EXCEPT !.recency = r, !.op = "other"]

\* History of the set of `key` that has taken the lock: the keys before it and the
\* entry whose last access was the oldest.
SetOp(key, r) ==
  [recency |-> r, op |-> "setting", key |-> key,
   present |-> key \in KeysOf(cache.data),
   before |-> KeysOf(cache.data),
   lru |-> IF cache_hist.recency = << >> THEN "none" ELSE Head(cache_hist.recency),
   distinct |-> \A i, j \in 1..Len(cache.access_order) :
                   i # j => cache.access_order[i].at # cache.access_order[j].at]

\* History of a step outside the lock (a clock reading, a tick of the clock): the
\* record of a set that holds the lock is kept until the set ends.
Outside(h) == IF h.op = "setting" THEN h ELSE OtherOp(h.recency)

\* self._lock is held: a set is between lines 79 and 81, or a get between lines 46
\* and 55.
LockHeld == \E t \in Threads : waiting[t].op \in {"set81", "get55"}

\* Variant: the eviction condition of line 73 compares with > for >=.
must_evict_late(c, key) ==
  /\ c.max_size > 0
  /\ key \notin KeysOf(c.data)
  /\ Len(c.data) > c.max_size

\* Cache.set, line 73: an entry has to be evicted before `key` is stored
must_evict(c, key) ==
  /\ c.max_size > 0
  /\ key \notin KeysOf(c.data)
  /\ Len(c.data) >= c.max_size

\* Cache.set, lines 68-69: time.time() is read for expires_at before the lock is
\* taken; the thread then waits for the lock.
Cache_set_69(t) ==
  /\ waiting[t] = NotWaiting
  /\ waiting' = [waiting EXCEPT ![t] = [NotWaiting EXCEPT !.op = "set", !.time = wall]]
  /\ cache_hist' = Outside(cache_hist)
  /\ UNCHANGED << client, cache, wall, events >>

\* Cache.set, lines 71-80, of the call set(key, value, ttl) whose line 69 read
\* waiting[t].time: the lock is taken, an entry is evicted if need be, and the entry
\* is stored with the expires_at of line 69 and the reading of line 79 as
\* created_at.  (The arguments of the call are drawn here, where they are first used
\* on the cache.)
Cache_set(t, key, ttl) ==
  /\ waiting[t].op = "set"
  /\ ~LockHeld
  /\ LET c == IF must_evict(cache, key) THEN evict_lru(cache) ELSE cache
     IN  cache' = [c EXCEPT !.data =
                      Assigned(@, key, [key |-> key,
                                        expires_at |-> waiting[t].time + ttl,
                                        created_at |-> wall])]
  /\ cache_hist' = SetOp(key, cache_hist.recency)
  /\ waiting' = [waiting EXCEPT ![t] = [NotWaiting EXCEPT !.op = "set81", !.key = key]]
  /\ UNCHANGED << client, wall, events >>

\* Cache.set, lines 81-82: the reading of line 81 becomes the access time of the
\* key, and the lock is released.
Cache_set_81(t) ==
  /\ waiting[t].op = "set81"
  /\ cache' = [cache EXCEPT !.access_order =
                  Assigned(@, waiting[t].key, [key |-> waiting[t].key, at |-> wall])]
  /\ cache_hist' = [cache_hist EXCEPT
                      !.op = "set",
                      !.recency = Accessed(@, cache.data, waiting[t].key)]
  /\ waiting' = [waiting EXCEPT ![t] = NotWaiting]
  /\ UNCHANGED << client, wall, events >>

\* Cache.get, lines 40-52: the lock is taken; a miss returns; an entry that the
\* reading of line 46 finds expired is deleted; else the get goes on to line 55.
Cache_get(t, key) ==
  /\ waiting[t] = NotWaiting
  /\ ~LockHeld
  /\ IF key \notin KeysOf(cache.data)
     THEN /\ cache_hist' = OtherOp(cache_hist.recency)
          /\ UNCHANGED << cache, waiting >>
     ELSE IF Lookup(cache.data, key).expires_at < wall
     THEN /\ cache' = [cache EXCEPT !.data = Without(@, key),
                                    !.access_order = Without(@, key)]
          /\ cache_hist' = OtherOp(Kept(cache_hist.recency, cache'.data))
          /\ UNCHANGED waiting
     ELSE /\ waiting' = [waiting EXCEPT ![t] =
                           [NotWaiting EXCEPT !.op = "get55", !.key = key]]
          /\ cache_hist' = OtherOp(cache_hist.recency)
          /\ UNCHANGED cache
  /\ UNCHANGED << client, wall, events >>

\* Cache.get, lines 54-58: the reading of line 55 becomes the access time of the
\* key, and the lock is released.
Cache_get_55(t) ==
  /\ waiting[t].op = "get55"
  /\ cache' = [cache EXCEPT !.access_order =
                  Assigned(@, waiting[t].key, [key |-> waiting[t].key, at |-> wall])]
  /\ cache_hist' = OtherOp(Accessed(cache_hist.recency, cache.data, waiting[t].key))
  /\ waiting' = [waiting EXCEPT ![t] = NotWaiting]
  /\ UNCHANGED << client, wall, events >>

\* Cache.delete, lines 84-100
Cache_delete(t, key) ==
  /\ waiting[t] = NotWaiting
  /\ ~LockHeld
  /\ cache' = [cache EXCEPT !.data = Without(@, key),
                            !.access_order = Without(@, key)]
  /\ cache_hist' = OtherOp(Kept(cache_hist.recency, cache'.data))
  /\ UNCHANGED << client, wall, waiting, events >>

\* Cache.cleanup_expired, line 118: current_time is read before the lock is taken;
\* the thread then waits for the lock.
Cache_cleanup_expired_118(t) ==
  /\ waiting[t] = NotWaiting
  /\ waiting' = [waiting EXCEPT ![t] =
                   [NotWaiting EXCEPT !.op = "cleanup_expired", !.time = wall]]
  /\ cache_hist' = Outside(cache_hist)
  /\ UNCHANGED << client, cache, wall, events >>

\* Cache.cleanup_expired, lines 121-129, under the lock: the entries that had
\* expired at the reading of line 118 go.
Cache_cleanup_expired(t) ==
  /\ waiting[t].op = "cleanup_expired"
  /\ ~LockHeld
  /\ LET d == SelectSeq(cache.data,
                        LAMBDA e : ~(e.expires_at < waiting[t].time))
     IN  /\ cache' = [cache EXCEPT
                        !.data = d,
                        !.access_order = SelectSeq(@, LAMBDA e : e.key \in KeysOf(d))]
         /\ cache_hist' = OtherOp(Kept(cache_hist.recency, d))
  /\ waiting' = [waiting EXCEPT ![t] = NotWaiting]
  /\ UNCHANGED << client, wall, events >>

\* Cache.clear, lines 102-110
Cache_clear(t) ==
  /\ waiting[t] = NotWaiting
  /\ ~LockHeld
  /\ cache' = [cache EXCEPT !.data = << >>, !.access_order = << >>]
  /\ cache_hist' = OtherOp(<< >>)
  /\ UNCHANGED << client, wall, waiting, events >>

\* time.time() advances.
WallTick ==
  /\ wall < MaxWall
  /\ wall' = wall + 1
  /\ cache_hist' = Outside(cache_hist)
  /\ UNCHANGED << client, cache, waiting, events >>

\* time.time() is the system clock, which can be adjusted: it is set to another
\* reading, ahead or back.
WallSet ==
  /\ \E w \in (0..MaxWall) \ {wall} : wall' = w
  /\ cache_hist' = Outside(cache_hist)
  /\ UNCHANGED << client, cache, waiting, events >>

\* One cache of every max_size, the client constructed and left alone.
InitCache ==
  /\ InitWith({}, {0}, {1}, {0}, {"ok_empty"}, 0)
  /\ InitPolicy({0}, {0}, {EmptyMap}, {EmptyMap}, {})
  /\ \E m \in 0..MaxSize : cache = NewCache(m)
  /\ wall = 0
  /\ waiting = [t \in Threads |-> NotWaiting]
  /\ cache_hist = NoCacheOp
  /\ NewEmitter

\* A step of thread t in an operation of the cache.
CacheStep(t) ==
  \/ Cache_set_69(t)
  \/ \E key \in KeysFor(cache) : \E ttl \in TTLs : Cache_set(t, key, ttl)
  \/ Cache_set_81(t)
  \/ \E key \in KeysFor(cache) : Cache_get(t, key) \/ Cache_delete(t, key)
  \/ Cache_get_55(t)
  \/ Cache_cleanup_expired_118(t)
  \/ Cache_cleanup_expired(t)
  \/ Cache_clear(t)

NextCache ==
  \/ WallTick
  \/ \E t \in Threads : CacheStep(t)

NextCacheClockSet ==
  \/ WallSet
  \/ CacheStep(1)

\* The threads that call the cache.  A thread is in one operation at a time; what an
\* operation does under the lock between two of its clock readings is one step, and
\* while a thread holds the lock the others read the clock (lines 69, 118) and wait.
SpecCache == InitCache /\ [][NextCache]_vars

\* One thread calls the cache while the system clock is set ahead and back.
SpecCacheClockSet == InitCache /\ [][NextCacheClockSet]_vars

\* ------------------------------------------------------------- the emitter

\* The callbacks the callers register with on; what the list holds for them and for
\* the wrapper that the n-th call of once made.
Callbacks == {"listener", "listener2"}
Plain(f) == [f |-> f, n |-> 0]
Wrapper(n) == [f |-> "wrapper", n |-> n]

\* list.remove(x): the first occurrence goes.
Removed(l, x) ==
  LET i == CHOOSE i \in 1..Len(l) : l[i] = x /\ \A j \in 1..(i - 1) : l[j] # x
  IN  [j \in 1..(Len(l) - 1) |-> IF j < i THEN l[j] ELSE l[j + 1]]

\* EventEmitter.off, lines 33-48, on the list l
off(l, callback) ==
  IF \E i \in 1..Len(l) : l[i] = callback THEN Removed(l, callback) ELSE l

\* EventEmitter.on, lines 20-31: the callback is appended, registered or not
Emitter_on(f) ==
  /\ Len(listeners) < MaxListeners
  /\ listeners' = Append(listeners, Plain(f))
  /\ UNCHANGED << client, the_cache, emitting, events_hist >>

\* EventEmitter.off, lines 33-48, of a callback given to on
Emitter_off(f) ==
  /\ listeners' = off(listeners, Plain(f))
  /\ UNCHANGED << client, the_cache, emitting, events_hist >>

\* EventEmitter.once, lines 80-91: a new wrapper of the callback is registered
Emitter_once ==
  /\ Len(listeners) < MaxListeners
  /\ events_hist.registered < MaxOnce
  /\ listeners' = Append(listeners, Wrapper(events_hist.registered + 1))
  /\ events_hist' = [events_hist EXCEPT !.registered = @ + 1]
  /\ UNCHANGED << client, the_cache, emitting >>

\* EventEmitter.remove_all_listeners, lines 93-106
Emitter_remove_all_listeners ==
  /\ listeners' = << >>
  /\ UNCHANGED << client, the_cache, emitting, events_hist >>

\* EventEmitter.listener_count, lines 108-118
listener_count == Len(listeners)

\* What emit does after a call of a listener that ended with `how`: count the call
\* (line 74) or log the error (lines 75-76), then the next of its copy, or line 78;
\* a BaseException that is no Exception is not caught by line 75 and leaves emit at
\* once, the rest of the copy not called, nothing counted or logged.
NextListener(e, how) ==
  LET c == [e EXCEPT !.count = IF how = "returned" THEN @ + 1 ELSE @]
  IN  IF how = "BaseException" THEN [e EXCEPT !.pc = "raise73"]
      ELSE IF e.i < Len(e.listeners) THEN [c EXCEPT !.pc = "emit72", !.i = @ + 1]
      ELSE [c EXCEPT !.pc = "emit78"]

\* EventEmitter.emit, lines 61-70: the copy of the list, under the lock; an empty
\* copy returns 0 (line 66)
emit_62(t) ==
  /\ emitting[t].pc = "idle"
  /\ emitting' = [emitting EXCEPT ![t] =
                    [pc |-> IF listeners = << >> THEN "emit78" ELSE "emit72",
                     listeners |-> listeners,
                     i |-> IF listeners = << >> THEN 0 ELSE 1,
                     count |-> 0]]
  /\ events_hist' = [events_hist EXCEPT !.overlapped =
                       @ \/ \E u \in Threads \ {t} :
                              emitting[u].pc \in {"emit72", "once89"}]
  /\ UNCHANGED << client, the_cache, listeners >>

\* EventEmitter.emit, lines 71-76, calling a listener given to on, which returns or
\* raises; calling a wrapper of once, whose first statement (line 88) is
\* self.off(event, wrapper)
emit_72(t) ==
  /\ emitting[t].pc = "emit72"
  /\ IF emitting[t].listeners[emitting[t].i].f = "wrapper"
     THEN /\ listeners' = off(listeners, emitting[t].listeners[emitting[t].i])
          /\ emitting' = [emitting EXCEPT ![t].pc = "once89"]
     ELSE /\ \E how \in Listened :
               emitting' = [emitting EXCEPT ![t] = NextListener(@, how)]
          /\ UNCHANGED listeners
  /\ UNCHANGED << client, the_cache, events_hist >>

\* The wrapper of once, line 89: the callback is invoked, and returns or raises; what
\* it raises leaves the wrapper and reaches line 75 of emit
once_89(t) ==
  /\ emitting[t].pc = "once89"
  /\ events_hist' =
       [events_hist EXCEPT !.invoked[emitting[t].listeners[emitting[t].i].n] = @ + 1]
  /\ \E how \in Listened :
       emitting' = [emitting EXCEPT ![t] = NextListener(@, how)]
  /\ UNCHANGED << client, the_cache, listeners >>

\* EventEmitter.emit, line 73: the BaseException of a listener propagates out of
\* emit; no count is returned
emit_73(t) ==
  /\ emitting[t].pc = "raise73"
  /\ emitting' = [emitting EXCEPT ![t] = NotEmitting]
  /\ UNCHANGED << client, the_cache, listeners, events_hist >>

\* EventEmitter.emit, lines 66 and 78: count is returned
emit_78(t) ==
  /\ emitting[t].pc = "emit78"
  /\ emitting' = [emitting EXCEPT ![t] = NotEmitting]
  /\ UNCHANGED << client, the_cache, listeners, events_hist >>

\* An emitter, the client and the cache constructed and left alone.
InitEvents ==
  /\ InitWith({}, {0}, {1}, {0}, {"ok_empty"}, 0)
  /\ InitPolicy({0}, {0}, {EmptyMap}, {EmptyMap}, {})
  /\ InitOthers

NextEvents ==
  \/ \E f \in Callbacks : Emitter_on(f) \/ Emitter_off(f)
  \/ Emitter_once
  \/ Emitter_remove_all_listeners
  \/ \E t \in Threads :
       emit_62(t) \/ emit_72(t) \/ once_89(t) \/ emit_73(t) \/ emit_78(t)

\* Two threads emitting the event, listeners registered and removed at any moment.
SpecEvents == InitEvents /\ [][NextEvents]_vars

\* ------------------------------------------------------------------ claims

\* A verb call of caller t has ended and its result is about to reach the caller.
AtDone(t) == call[t].pc = "done" /\ call[t].op = "request"

Success == {"payload", "empty_mapping"}

\* The client was constructed with retries disabled and exactly n verb calls have
\* completed on it, every one with an error raised by the transport.
FailedCalls(n) == max_retries = 0 /\ hist.fresh_calls = n

\* C1, as stated: for every configuration, circuit_breaker_reset = 0 included, with
\* max_retries = 0, after circuit_breaker_threshold consecutive failed calls the next
\* call fails with CircuitBreakerOpen and the transport is not invoked for it.  Read
\* in the claim's favour: the next call runs its circuit check at once, at the clock
\* reading at which the last failure opened the circuit.
C1_NextCallRejected ==
  \A t \in env.callers :
    ( /\ FailedCalls(circuit_breaker_threshold)
      /\ AtDone(t)
      /\ call[t].pre_until # 0
      /\ call[t].t60 = call[t].pre_until - circuit_breaker_reset )
    => ( /\ call[t].ret = "CircuitBreakerOpen"
         /\ hist.fresh_inv = circuit_breaker_threshold )

\* C1, amended: with max_retries = 0, the call that is the circuit_breaker_threshold-th
\* consecutive failure leaves failure_streak = 0 and circuit_open_until = (clock when
\* it was recorded) + circuit_breaker_reset after exactly circuit_breaker_threshold
\* transport invocations; the next call, when its circuit check runs while the clock
\* is below that circuit_open_until, fails with CircuitBreakerOpen without invoking
\* the transport, whose invocation count stays circuit_breaker_threshold.
C1_NextCallRejectedDuringCooldown ==
  \A t \in env.callers :
    /\ ( /\ FailedCalls(circuit_breaker_threshold - 1)
         /\ AtDone(t)
         /\ call[t].ret \in Raised )
       => ( /\ failure_count = 0
            /\ hist.opened_at >= call[t].t60
            /\ circuit_open_until = hist.opened_at + circuit_breaker_reset
            /\ hist.fresh_inv = circuit_breaker_threshold )
    /\ ( /\ FailedCalls(circuit_breaker_threshold)
         /\ AtDone(t)
         /\ call[t].t60 < call[t].pre_until )
       => ( /\ call[t].ret = "CircuitBreakerOpen"
            /\ call[t].inv = 0
            /\ hist.fresh_inv = circuit_breaker_threshold )

\* C1 witness: the call after three consecutive failures (threshold 3) was rejected.
C1_Witness ==
  /\ FailedCalls(circuit_breaker_threshold)
  /\ circuit_breaker_threshold = 3
  /\ AtDone(1)
  /\ call[1].t60 < call[1].pre_until
  /\ call[1].ret = "CircuitBreakerOpen"

\* C2: a call whose first exchange fails with a 4xx status makes exactly one transport
\* invocation, sleeps in no backoff, and ends with that error, whatever max_retries.
C2_ClientErrorNotRetried ==
  \A t \in env.callers :
    call[t].first = "HTTP404"
    => ( /\ call[t].inv = 1
         /\ call[t].sleeps = 0
         /\ (AtDone(t) => call[t].ret = "HTTP404") )

\* C3: no lost update: once circuit_breaker_threshold failures have been recorded by
\* the callers, in any interleaving and with no success in between, the circuit has
\* been opened.
C3_NoLostUpdate == hist.fresh_recorded < circuit_breaker_threshold

\* C4: a call that ends with a successful exchange leaves failure_streak = 0 and
\* circuit_open_until unset, whatever the two held when the response arrived.
C4_SuccessResets ==
  \A t \in env.callers :
    (AtDone(t) /\ call[t].ret \in Success)
    => (failure_count = 0 /\ circuit_open_until = 0)

\* C4 witness: a success that found a streak above 0 and the cooldown set.
C4_Witness ==
  /\ AtDone(1)
  /\ call[1].ret \in Success
  /\ call[1].seen_fc > 0
  /\ call[1].seen_until # 0

\* A call whose exchanges fail with a transport error is retried, and when exchange
\* k+1 (k <= max_retries) then succeeds the call returns the payload after exactly
\* k+1 invocations and k sleeps, with failure_streak = 0 and the circuit closed; a
\* call that ends with one of `errors`, every exchange of it having failed with a
\* transport error, has used all its max_retries + 1 attempts.
RetryRecovers(errors) ==
  \A t \in env.callers :
    /\ (AtDone(t) /\ call[t].all_transport /\ call[t].body \in {"ok_body", "ok_empty"})
       => ( /\ call[t].ret = IF call[t].body = "ok_body" THEN "payload" ELSE "empty_mapping"
            /\ call[t].inv = call[t].attempt + 1
            /\ call[t].sleeps = call[t].attempt
            /\ call[t].attempt <= max_retries
            /\ failure_count = 0
            /\ ~still_open(circuit_open_until, now) )
    /\ (AtDone(t) /\ call[t].all_transport /\ call[t].ret \in errors)
       => call[t].inv = max_retries + 1

\* C5: retry recovers from transient errors.  A transport error (no response
\* obtained: a URLError that is no HTTPError, a timeout or reset raised raw) on an
\* exchange with an attempt left is followed by another exchange, so that a success
\* on exchange k+1 <= max_retries + 1 is reached and returned; a call ends with a
\* transport error only after max_retries + 1 invocations.
C5_RetryRecovers == RetryRecovers({"URLError", "TimeoutError"})

\* What holds of the code: the same for the transport errors that are URLErrors.
RetryRecoversOfCode == RetryRecovers({"URLError"})

\* The case of RetryRecoversOfCode: max_retries = 2, two URLErrors, then the payload
\* on the third invocation.
RetryRecoversReached ==
  /\ max_retries = 2
  /\ AtDone(1)
  /\ call[1].all_transport
  /\ call[1].inv = 3
  /\ call[1].ret = "payload"

\* The configuration of C6.
ThresholdOne == circuit_breaker_threshold = 1 /\ max_retries = 0

\* C6: with circuit_breaker_threshold = 1 and max_retries = 0, (a) one transport
\* failure opens the circuit for circuit_breaker_reset; (b) a call whose circuit check
\* runs before the cooldown has elapsed raises CircuitBreakerOpen; (c) a call whose
\* circuit check runs after it has elapsed is attempted against the transport (unless
\* its request cannot be built, lines 141 and 143) and, on success with an empty body, returns an empty mapping
\* and leaves circuit_open_until unset and the circuit reported closed.
C6_RecoversAfterCooldown ==
  \A t \in env.callers :
    (ThresholdOne /\ AtDone(t)) =>
      /\ call[t].ret \in Raised
         => ( /\ hist.opened_at >= call[t].t60
              /\ circuit_open_until = hist.opened_at + circuit_breaker_reset
              /\ failure_count = 0 )
      /\ call[t].t60 < call[t].pre_until
         => (call[t].ret = "CircuitBreakerOpen" /\ call[t].inv = 0)
      /\ ( /\ call[t].pre_until # 0 /\ call[t].t60 >= call[t].pre_until
           /\ call[t].ret \notin BuildErrors )
         => ( /\ call[t].inv = 1
              /\ call[t].first = "ok_empty"
                 => ( /\ call[t].ret = "empty_mapping"
                      /\ circuit_open_until = 0
                      /\ failure_count = 0
                      /\ ~still_open(circuit_open_until, now) ) )

\* C6 witness: the circuit was open for a cooldown above 0, the cooldown elapsed, and
\* the call returned the empty mapping.
C6_Witness ==
  /\ ThresholdOne
  /\ circuit_breaker_reset > 0
  /\ AtDone(1)
  /\ call[1].pre_until # 0
  /\ call[1].t60 >= call[1].pre_until
  /\ call[1].ret = "empty_mapping"

\* C7: a call rejected by the circuit check found circuit_open_until set and in the
\* future, made no transport invocation and no backoff sleep, and leaves
\* failure_streak and circuit_open_until as they were when it began.
C7_RejectionChangesNothing ==
  \A t \in env.callers :
    (AtDone(t) /\ call[t].ret = "CircuitBreakerOpen")
    => ( /\ call[t].pre_until # 0
         /\ call[t].t60 < call[t].pre_until
         /\ call[t].inv = 0
         /\ call[t].sleeps = 0
         /\ failure_count = call[t].pre_fc
         /\ circuit_open_until = call[t].pre_until )

\* C7 witness: a rejected call that began with a streak above 0, after the clock had
\* advanced past the opening of the circuit.
C7_Witness ==
  /\ AtDone(1)
  /\ call[1].ret = "CircuitBreakerOpen"
  /\ call[1].pre_fc > 0
  /\ call[1].t60 > hist.opened_at

\* C8: half-open admits one trial: while the caller that cleared the expired cooldown
\* (of a circuit_breaker_reset above 0) has invoked the transport and has no recorded
\* outcome yet, no other caller has been let through to the transport.
C8_SingleTrial ==
  circuit_breaker_reset > 0 =>
    \A t, u \in env.callers :
      ~( /\ hist.trial = t
         /\ call[t].admitted = "trial"
         /\ call[t].inv >= 1
         /\ call[u].admitted = "during_trial"
         /\ call[u].inv >= 1 )

\* C9: for every circuit_breaker_threshold (and a circuit_breaker_reset above 0),
\* when the request admitted after the cooldown elapsed fails, the circuit is open again with
\* circuit_open_until = (clock of that failure) + circuit_breaker_reset.
C9_FailedTrialReopens ==
  \A t \in env.callers :
    ( /\ circuit_breaker_reset > 0
      /\ AtDone(t)
      /\ call[t].admitted = "trial"
      /\ call[t].attempt = 0
      /\ call[t].ret \in Raised )
    => ( /\ hist.opened_at >= call[t].t60
         /\ circuit_open_until = hist.opened_at + circuit_breaker_reset )

\* C10: get_resilience_state leaves failure_streak and circuit_open_until as they
\* were, also when circuit_open_until is set and elapsed (circuit_breaker_reset > 0), and the circuit_open it
\* returns is true iff circuit_open_until is set and in the future.
C10_AccessorOnlyObserves ==
  \A t \in env.callers :
    (circuit_breaker_reset > 0 /\ call[t].pc = "done" /\ call[t].op = "state")
    => ( /\ failure_count = call[t].pre_fc
         /\ circuit_open_until = call[t].pre_until
         /\ call[t].snap_open = still_open(call[t].pre_until, call[t].t60) )

\* A call whose every exchange failed with a retryable error, the last with one of
\* `errors`, ends after exactly max_retries + 1 transport invocations, at attempt
\* index max_retries, after max_retries sleeps, with the error of its last exchange
\* itself (the bare raise of line 157): never CircuitBreakerOpen or RuntimeError.
ExhaustedRetries(errors) ==
  \A t \in env.callers :
    (AtDone(t) /\ call[t].inv >= 1 /\ call[t].all_retryable /\ call[t].error \in errors)
    => ( /\ call[t].inv = max_retries + 1
         /\ call[t].attempt = max_retries
         /\ call[t].sleeps = max_retries
         /\ call[t].ret = call[t].error )

\* C11: a call whose every exchange failed with a retryable error (a connectivity
\* error, a timeout included, or a 5xx status) ends after exactly max_retries + 1
\* transport invocations with the error of its last exchange itself.
C11_ExhaustedRetries == ExhaustedRetries({"URLError", "TimeoutError", "HTTP503"})

\* What holds of the code: the same for the calls whose last exchange raised a
\* URLError or a 5xx, the retryable errors that _should_retry accepts.
ExhaustedRetriesOfCode == ExhaustedRetries({"URLError", "HTTP503"})

\* The case of ExhaustedRetriesOfCode: max_retries = 2, a connectivity error first,
\* the call ends with the 503 of its third exchange.
ExhaustedRetriesReached ==
  /\ max_retries = 2
  /\ AtDone(1)
  /\ call[1].all_retryable
  /\ call[1].first = "URLError"
  /\ call[1].inv = 3
  /\ call[1].ret = "HTTP503"

\* C12: circuit_open_until is set (to a value other than the sentinel) only by line
\* 77 of _record_failure, taken when the failure just recorded brought failure_streak
\* to circuit_breaker_threshold; no step of a success, a rejected call or the accessor
\* sets it; and the next step of the _record_failure that set it (line 78) makes
\* failure_streak 0.
C12_OpensOnlyOnThreshold ==
  [][ /\ (circuit_open_until' # circuit_open_until /\ circuit_open_until' # 0)
         => \E t \in env.callers :
              /\ call[t].pc = "rf77w"
              /\ call'[t].pc = "rf78"
              /\ call[t].op = "request"
              /\ failure_count = circuit_breaker_threshold
      /\ \A t \in env.callers :
           (call[t].pc = "rf78" /\ call'[t].pc # "rf78")
           => (failure_count' = 0 /\ circuit_open_until' = circuit_open_until) ]_vars

\* C12 witness: the third consecutive failure (threshold 3) has opened the circuit
\* and the call ends with the streak back at 0.
C12_Witness ==
  /\ circuit_breaker_threshold = 3
  /\ AtDone(1)
  /\ call[1].ret \in Raised
  /\ call[1].pre_until = 0
  /\ circuit_open_until # 0
  /\ failure_count = 0

\* The exchanges of the call of caller t that failed so far: every one but a last
\* one whose response was read and parsed.
FailedExchanges(t) ==
  IF call[t].ret \in Success THEN call[t].inv - 1 ELSE call[t].inv

\* Every failed exchange is recorded exactly once before its error propagates or the
\* next attempt begins: when a call raises (157), sleeps before a retry (160-165),
\* starts its next attempt (148) or returns, its _record_failure calls number its
\* failed exchanges, retryable or not, last attempt or not, a response that cannot
\* be read, decoded or parsed included; and the last of them either raised
\* failure_streak by one (below the threshold) or opened the circuit with
\* failure_streak 0.
FailuresRecorded ==
  \A t \in env.callers :
    /\ call[t].pc \in {"mr148", "mr165", "done"} => call[t].recs = FailedExchanges(t)
    /\ (call[t].pc = "mr165" \/ (AtDone(t) /\ call[t].ret \in ExchangeErrors))
       => \/ /\ failure_count = call[t].rec_from + 1
             /\ failure_count < circuit_breaker_threshold
          \/ /\ call[t].rec_from + 1 = circuit_breaker_threshold
             /\ failure_count = 0
             /\ circuit_open_until = hist.opened_at + circuit_breaker_reset
             /\ hist.opened_at # 0

\* C13, as stated: every failed exchange is recorded exactly once before its error
\* reaches the caller or a retry begins, and a call ends only with a payload or with
\* one of the error kinds: CircuitBreakerOpen, or the error of an exchange (transport
\* error, status error, unreadable or malformed payload).
C13_EveryFailureRecorded ==
  /\ FailuresRecorded
  /\ \A t \in env.callers :
       AtDone(t) => call[t].ret \in Success \cup ExchangeErrors \cup {"CircuitBreakerOpen"}

\* C13, amended: every failed exchange is recorded exactly once before its error
\* reaches the caller or a retry begins; a call that made an exchange ends only with
\* a payload or with the error of its last exchange, and a call that made none ends
\* with CircuitBreakerOpen or with the error of a request that could not be built
\* (TypeError of line 141, ValueError of line 143), nothing recorded: failure_streak
\* is as the call found it, and circuit_open_until is as the call found it after a
\* rejection and unset after a build error, whose circuit check (lines 60-66, before
\* the request is built) found it unset or cleared it, the cooldown having expired.
C13_EveryFailureRecordedOnceBuilt ==
  /\ FailuresRecorded
  /\ \A t \in env.callers :
       AtDone(t)
       => /\ call[t].ret \in Success \cup Errors \cup {"CircuitBreakerOpen"}
          /\ call[t].inv >= 1
             => /\ call[t].ret \in Success \cup ExchangeErrors
                /\ call[t].ret \in ExchangeErrors => call[t].ret = call[t].error
          /\ call[t].inv = 0
             => /\ call[t].ret \in BuildErrors \cup {"CircuitBreakerOpen"}
                /\ call[t].recs = 0
                /\ failure_count = call[t].pre_fc
                /\ call[t].ret = "CircuitBreakerOpen"
                   => circuit_open_until = call[t].pre_until
                /\ call[t].ret \in BuildErrors
                   => /\ circuit_open_until = 0
                      /\ call[t].pre_until # 0 => call[t].t60 >= call[t].pre_until

\* C13 witness: a 404 on the last allowed attempt, after a retried failure, both
\* recorded.
C13_Witness ==
  /\ max_retries = 1
  /\ circuit_breaker_threshold = 3
  /\ AtDone(1)
  /\ call[1].ret = "HTTP404"
  /\ call[1].first = "URLError"
  /\ call[1].recs = 2
  /\ failure_count = call[1].pre_fc + 2

\* A call found a cooldown that had expired, cleared it (line 66) and ended with the
\* error of a request that could not be built.
BuildErrorAfterCooldown ==
  /\ AtDone(1)
  /\ call[1].ret \in BuildErrors
  /\ call[1].pre_until # 0
  /\ circuit_open_until = 0

\* The retry policy as a predicate of the error: a connectivity error (no response
\* obtained, a timeout) always, an error with an HTTP status exactly for 500..599,
\* nothing else.
RetryableByPolicy(error) ==
  IF IsHTTPError(error) THEN 500 =< Code(error) /\ Code(error) < 600
  ELSE error \in {"URLError", "TimeoutError"}

\* C14: once line 155 has decided about the error of an exchange, the call goes on to
\* another attempt exactly when the error is retryable by the policy and the attempt
\* index is below max_retries; a 4xx status and a malformed payload propagate from
\* their first occurrence.
C14_RetryEligibility ==
  \A t \in env.callers :
    /\ call[t].pc \in {"rf71r", "rf71w", "rf72", "rf76", "rf77", "rf77w", "rf78"}
       => ( call[t].final
            <=> ~(RetryableByPolicy(call[t].error) /\ call[t].attempt < max_retries) )
    /\ call[t].pc = "mr165" => RetryableByPolicy(call[t].error)

\* C15, as stated: for every circuit_breaker_reset >= 0, the circuit_open_until that
\* line 77 has just stored is strictly greater than the clock read by line 77.
C15_OpenUntilStrictlyFuture ==
  \A t \in env.callers :
    call[t].pc = "rf78" => circuit_open_until > hist.opened_at

\* C15, amended: circuit_open_until is either unset or the value line 77 stored,
\* (clock read by line 77) + circuit_breaker_reset, a clock reading that is not in
\* the future of the present one; the stored value is strictly greater than that
\* reading exactly when circuit_breaker_reset > 0 and equal to it when
\* circuit_breaker_reset = 0.
C15_OpenUntilIsClockPlusReset ==
  /\ circuit_open_until = 0 <=> hist.opened_at = 0
  /\ circuit_open_until # 0
     => /\ circuit_open_until = hist.opened_at + circuit_breaker_reset
        /\ hist.opened_at =< now
        /\ circuit_open_until > hist.opened_at <=> circuit_breaker_reset > 0
  /\ \A t \in env.callers : call[t].pc = "rf78" => circuit_open_until # 0

\* C15 witness: line 77 has just stored clock + 2 at a clock reading above the
\* first.
C15_Witness ==
  /\ circuit_breaker_reset = 2
  /\ call[1].pc = "rf78"
  /\ now > 1
  /\ hist.opened_at = now
  /\ circuit_open_until = now + 2

\* C16: the delay of the k-th backoff sleep of a call (k = 1, 2, ...) was computed
\* for attempt index a = k - 1, the index restarting at 0 in every call, and lies in
\* [backoff_factor * 2^a, backoff_factor * 2^a + jitter], so that its lower bound
\* doubles from one sleep of the call to the next.
C16_BackoffDelayBounds ==
  \A t \in env.callers :
    /\ call[t].pc = "mr148" => call[t].sleeps = call[t].attempt
    /\ call[t].pc = "mr165" => call[t].sleeps = call[t].attempt
    /\ call[t].sleeps = 0 => call[t].delay = 0
    /\ call[t].sleeps >= 1
       => LET a == call[t].sleeps - 1
          IN  /\ backoff_factor * Pow2(a) =< call[t].delay
              /\ call[t].delay =< backoff_factor * Pow2(a) + jitter

\* C16 witness: backoff_factor 2, jitter 1; the second sleep of a call lasted
\* 2 * 2^1 + 1.
C16_Witness ==
  /\ backoff_factor = 2
  /\ jitter = 1
  /\ call[1].pc = "mr148"
  /\ call[1].sleeps = 2
  /\ call[1].delay = 5

\* The header overrides merged onto the defaults of lines 45-48.
MergedOntoDefaults(headers) == Updated(StdHeaders, headers)

\* C17: for every headers argument H of the constructor, the default headers of the
\* instance hold every entry of H, and Content-Type and Accept = application/json
\* for each of the two that H does not name.
C17_ConstructionMergesHeaders ==
  \A k \in DOMAIN MergedOntoDefaults(args.headers) :
    /\ k \in DOMAIN default_headers
    /\ default_headers[k] = MergedOntoDefaults(args.headers)[k]

\* C18: the headers of the request of a verb call are the instance defaults, as they
\* were when the request was built, with the per-call headers laid over them: every
\* per-call entry, every default the per-call map does not name, and nothing else;
\* each transport invocation of the call carries them; and the call leaves
\* self.default_headers as they were (while no set_auth_token runs meanwhile; one
\* that does changes Authorization only).
C18_PerCallHeadersMerged ==
  \A t \in env.callers :
    Built(call[t]) =>
      /\ DOMAIN call[t].request_headers
           = DOMAIN call[t].built_from \cup DOMAIN call[t].headers
      /\ \A k \in DOMAIN call[t].headers :
           call[t].request_headers[k] = call[t].headers[k]
      /\ \A k \in DOMAIN call[t].built_from \ DOMAIN call[t].headers :
           call[t].request_headers[k] = call[t].built_from[k]
      /\ call[t].inv >= 1 => call[t].sent = call[t].request_headers
      /\ ~call[t].auth_since => default_headers = call[t].built_from
      /\ DOMAIN default_headers \ {"Authorization"}
           = DOMAIN call[t].built_from \ {"Authorization"}
      /\ \A k \in DOMAIN default_headers \ {"Authorization"} :
           default_headers[k] = call[t].built_from[k]

\* C18 witness: a call with per-call Authorization and X-Trace on a client whose
\* default Authorization is "Bearer t1" has been sent with "Basic b" and has ended,
\* the default still being "Bearer t1".
C18_Witness ==
  /\ AtDone(1)
  /\ call[1].inv >= 1
  /\ "Authorization" \in DOMAIN call[1].headers
  /\ "Authorization" \in DOMAIN call[1].built_from
  /\ call[1].built_from["Authorization"] = "Bearer t1"
  /\ call[1].sent["Authorization"] = "Basic b"
  /\ call[1].sent["X-Trace"] = "1"
  /\ "Accept" \in DOMAIN call[1].sent
  /\ ~call[1].auth_since
  /\ default_headers["Authorization"] = "Bearer t1"

\* C19: (a) once set_auth_token(token, token_type) has run, the default
\* Authorization header is "<token_type> <token>" of its last run, and the request
\* of a call built after that run is built from these defaults, so it carries the
\* new value (under the call's own Authorization header, if it passes one, C18);
\* (b) every transport invocation of a call, its retries included, carries the
\* headers the call was built with, also when set_auth_token ran meanwhile; (c) a
\* step that changes the default headers changes Authorization only and leaves
\* failure_streak and circuit_open_until as they are.
C19_AuthTokenForLaterCalls ==
  /\ [](/\ hist.auth # "none"
           => /\ "Authorization" \in DOMAIN default_headers
              /\ default_headers["Authorization"] = hist.auth
              /\ \E a \in args.tokens : hist.auth = a[1] \o " " \o a[2]
        /\ \A t \in env.callers :
             /\ (Built(call[t]) /\ ~call[t].auth_since)
                => /\ call[t].built_from = default_headers
                   /\ (hist.auth # "none" /\ "Authorization" \notin DOMAIN call[t].headers)
                      => call[t].request_headers["Authorization"] = hist.auth
             /\ (Built(call[t]) /\ call[t].inv >= 1)
                => call[t].sent = Updated(call[t].built_from, call[t].headers))
  /\ [][ default_headers' # default_headers
         => /\ failure_count' = failure_count
            /\ circuit_open_until' = circuit_open_until
            /\ \A k \in DOMAIN default_headers \ {"Authorization"} :
                 k \in DOMAIN default_headers' /\ default_headers'[k] = default_headers[k]
            /\ DOMAIN default_headers' = DOMAIN default_headers \cup {"Authorization"} ]_vars

\* C19 witness: a call built with "Bearer t1" has sent its second attempt with
\* "Bearer t1" after set_auth_token("t2", "Token") ran, while the resilience state
\* holds a streak of 1.
C19_Witness ==
  /\ Built(call[1])
  /\ call[1].auth_since
  /\ call[1].inv = 2
  /\ call[1].attempt = 1
  /\ "Authorization" \in DOMAIN call[1].sent
  /\ call[1].sent["Authorization"] = "Bearer t1"
  /\ hist.auth = "Token t2"
  /\ default_headers["Authorization"] = "Token t2"
  /\ failure_count = 1

\* Nothing but get_resilience_state has been called on the client since __init__:
\* no verb call has completed and none is under way.
FreshClient ==
  /\ hist.fresh_calls = 0
  /\ \A t \in env.callers : call[t].op # "request"

\* C20: on a client on which no verb has been called yet, failure_streak = 0,
\* circuit_open_until is unset, the circuit is closed at every clock reading, the
\* transport has never been invoked, and get_resilience_state reports streak 0,
\* circuit_open_until unset and circuit_open false.
C20_FreshClientClosed ==
  FreshClient =>
    /\ failure_count = 0
    /\ circuit_open_until = 0
    /\ ~still_open(circuit_open_until, now)
    /\ hist.fresh_inv = 0
    /\ hist.opened_at = 0
    /\ \A t \in env.callers :
         /\ call[t].inv = 0
         /\ call[t].pc = "done"
            => /\ call[t].snap_fc = 0
               /\ call[t].snap_until = 0
               /\ call[t].snap_open = FALSE

\* C20 witness: get_resilience_state has returned on a client no verb was called
\* on, after the clock advanced.
C20_Witness ==
  /\ FreshClient
  /\ now > 1
  /\ call[1].pc = "done"
  /\ call[1].op = "state"
  /\ call[1].snap_open = FALSE

\* C21: a call whose last exchange obtained a response with an empty body returns
\* the empty mapping (not None), one whose last exchange obtained a non-empty
\* well-formed body returns the parsed payload, after any number of retried failures;
\* in both cases failure_streak is 0 and circuit_open_until unset when it returns.
C21_EmptyBodyIsEmptyMapping ==
  \A t \in env.callers :
    AtDone(t) =>
      /\ call[t].body = "ok_empty"
         => (call[t].ret = "empty_mapping" /\ failure_count = 0 /\ circuit_open_until = 0)
      /\ call[t].body = "ok_body"
         => (call[t].ret = "payload" /\ failure_count = 0 /\ circuit_open_until = 0)
      /\ call[t].ret \in Success => call[t].body \in {"ok_empty", "ok_body"}

\* C21 witness: an empty body on the retry of a call that had opened the circuit.
C21_Witness ==
  /\ AtDone(1)
  /\ call[1].body = "ok_empty"
  /\ call[1].ret = "empty_mapping"
  /\ call[1].inv = 2
  /\ call[1].seen_until # 0

\* A caller is inside _record_failure (lines 71-78).
Recording(t) == call[t].pc \in {"rf71r", "rf71w", "rf72", "rf76", "rf77", "rf77w", "rf78"}

\* C30: whenever no caller is inside _record_failure, in particular after any
\* sequence of completed operations, 0 <= failure_streak <= circuit_breaker_threshold
\* - 1, for one caller and for callers interleaving in any way.
C30_StreakBelowThreshold ==
  (\A t \in env.callers : ~Recording(t))
  => (0 =< failure_count /\ failure_count =< circuit_breaker_threshold - 1)

\* C30 witness: two callers have each ended a call whose attempts all failed, their
\* _record_failure calls interleaved; no call is recording and the streak stands at
\* circuit_breaker_threshold - 1.
C30_Witness ==
  /\ \A t \in Threads : AtDone(t) /\ call[t].ret = "URLError" /\ call[t].recs = 2
  /\ failure_count = circuit_breaker_threshold - 1
  /\ failure_count > 0

\* C24: while a caller is suspended in its backoff sleep, no other caller waits for
\* it: one that is idle can start a call, and one that is in an operation (at the
\* circuit check, at the exchange, at the update of the counters) has its next step
\* enabled.
C24_SleepBlocksNoCaller ==
  \A t, u \in env.callers :
    (t # u /\ call[t].pc = "mr165")
    => /\ call[u].pc = "idle" => ENABLED StartCall(u)
       /\ call[u].pc # "idle" => ENABLED CallerStep(u)

\* C24 witness: caller 2 began a call while caller 1 slept, passed the circuit
\* check, had a failed exchange recorded and ended, caller 1 still in the same sleep.
C24_Witness ==
  /\ call[1].pc = "mr165"
  /\ AtDone(2)
  /\ call[2].during_sleep
  /\ call[2].inv >= 1
  /\ call[2].recs >= 1
  /\ call[2].ret = "URLError"

\* C25: for every max_retries >= 0 the attempt loop ends by returning a payload or by
\* raising the error of an attempt: a call sleeps only when an attempt is left, so
\* the statement after the loop (line 168, RuntimeError) is never reached, and a call
\* that has ended holds a payload or the error of its last attempt, or it did not
\* enter the loop (CircuitBreakerOpen, a request that could not be built).  Line 168
\* is a raise: a call that reached it would end with an exception, never with a
\* value.
C25_LoopEndsByReturnOrRaise ==
  \A t \in env.callers :
    /\ call[t].ret # "RuntimeError"
    /\ call[t].pc = "mr165" => call[t].attempt < max_retries
    /\ AtDone(t) =>
         \/ call[t].ret \in Success /\ call[t].body \in {"ok_body", "ok_empty"}
         \/ call[t].ret = call[t].error /\ call[t].error \in ExchangeErrors
         \/ call[t].ret \in BuildErrors \cup {"CircuitBreakerOpen"} /\ call[t].inv = 0

\* C25 witness: a call whose every attempt failed with a retryable error ends, the
\* loop run to its last index, by raising that error.
C25_Witness ==
  /\ AtDone(1)
  /\ max_retries = MaxRetries
  /\ call[1].attempt = max_retries
  /\ call[1].sleeps = max_retries
  /\ call[1].ret = "URLError"

\* C26: every verb call terminates.  Under any interleaving with the other caller,
\* a call has at no moment made more than max_retries + 1 transport invocations or
\* more than max_retries sleeps, and, each exchange and each sleep completing, a call
\* that has begun reaches its end (payload, propagated error or CircuitBreakerOpen).
C26_EveryCallTerminates ==
  /\ [](\A t \in env.callers :
          call[t].inv =< max_retries + 1 /\ call[t].sleeps =< max_retries)
  /\ \A t \in Threads : (call[t].op = "request") ~> AtDone(t)

\* C26 witness: both callers have ended a call that used every transport invocation
\* and every sleep it was allowed.
C26_Witness ==
  \A t \in Threads :
    /\ AtDone(t)
    /\ call[t].inv = max_retries + 1
    /\ call[t].sleeps = max_retries
    /\ max_retries > 0

\* C27: within one verb call the attempts are strictly sequential.  When attempt
\* a + 1 is about to start (line 148 with attempt index a + 1), the call has made
\* exactly a + 1 exchanges, the last of them failed, a + 1 failures have been
\* recorded and a + 1 sleeps have finished; and at every moment the exchanges made
\* number attempt or attempt + 1, at most one of them not yet recorded and at most
\* one recorded failure not yet slept on: no exchange is started beside another.
C27_AttemptsStrictlySequential ==
  \A t \in env.callers :
    /\ call[t].pc = "mr148" =>
         /\ call[t].inv = call[t].attempt
         /\ call[t].recs = call[t].attempt
         /\ call[t].sleeps = call[t].attempt
         /\ call[t].attempt > 0 => call[t].error # "none"
    /\ call[t].inv \in {call[t].attempt, call[t].attempt + 1}
    /\ call[t].recs \in {call[t].inv - 1, call[t].inv}
    /\ call[t].sleeps \in {call[t].recs - 1, call[t].recs}
    /\ call[t].sleeps =< call[t].attempt

\* C27 witness: the third attempt is about to start, after two failed exchanges,
\* two recorded failures and two sleeps.
C27_Witness ==
  /\ call[1].pc = "mr148"
  /\ call[1].attempt = 2
  /\ call[1].inv = 2
  /\ call[1].recs = 2
  /\ call[1].sleeps = 2

\* C28: the remaining cooldown that CircuitBreakerOpen carries is never negative
\* and never above circuit_breaker_reset; line 128 reads circuit_open_until anew,
\* whatever another caller did to it since the circuit check of the call, and the
\* value carried is that reading minus the clock, read next, whenever that
\* difference is positive.
C28_RemainingCooldown ==
  /\ [](\A t \in env.callers :
          0 =< call[t].remaining /\ call[t].remaining =< circuit_breaker_reset)
  /\ [][\A t \in env.callers :
          /\ (call[t].pc = "mr128" /\ call'[t].pc = "mr128c")
             => call'[t].until = circuit_open_until
          /\ (call[t].pc = "mr128c" /\ call'[t].pc = "done" /\ call[t].until - now > 0)
             => call'[t].remaining = call[t].until - now]_vars

\* C28 witness: a call is rejected with a remaining cooldown above 0 computed from a
\* circuit_open_until that another caller set after the circuit check of the call.
C28_Witness ==
  \E t \in env.callers :
    /\ AtDone(t)
    /\ call[t].ret = "CircuitBreakerOpen"
    /\ call[t].changed
    /\ call[t].remaining > 0

\* The positions of the events named `event` in the log of caller t.
EventsOf(t, event) == {i \in 1..Len(call[t].log) : call[t].log[i].event = event}

\* The events logged by the operation of the one caller have the stated levels and
\* order, the event of the expired cooldown being logged at expiry_level: a debug
\* event opens the log of each attempt; a recorded failure adds one warning that
\* carries the streak after the increment; when that failure opened the circuit,
\* a warning of the opening follows it; the call whose circuit check cleared the
\* expired cooldown has logged just that, at expiry_level, when it goes on to its
\* request; set_auth_token logs at info.
LoggedAs(expiry_level) ==
  /\ hist.auth # "none" => hist.auth_log = "info"
  /\ \A t \in env.callers :
       LET log == call[t].log
       IN  /\ \A i \in 1..Len(log) :
                /\ log[i].event = "attempt" => log[i].level = "debug"
                /\ log[i].event \in {"failure", "opened"} => log[i].level = "warning"
                /\ log[i].event = "cooldown_expired" => log[i].level = expiry_level
           /\ call[t].inv > 0 =>
                log[1] = Event("debug", "attempt", 0) /\ EventsOf(t, "attempt") = {1}
           /\ call[t].inv = 0 => EventsOf(t, "attempt") = {}
           /\ call[t].recs = call[t].inv /\ call[t].inv > 0 /\ call[t].error # "none" =>
                \E f \in 2..Len(log) :
                  /\ EventsOf(t, "failure") = {f}
                  /\ \A i \in 2..(f - 1) : log[i].event = "reset"
                  /\ log[f].n = call[t].rec_from + 1
                  /\ log[f].n >= circuit_breaker_threshold
                       <=> EventsOf(t, "opened") = {f + 1}
                  /\ log[f].n < circuit_breaker_threshold
                       <=> EventsOf(t, "opened") = {}
           /\ call[t].pc = "mr134" /\ call[t].admitted = "trial" =>
                log = << Event(expiry_level, "cooldown_expired", 0) >>
           /\ call[t].pc = "mr134" /\ call[t].admitted # "trial" => log = << >>

\* C29, as stated: the logged events follow the stated levels and order, with a
\* warning when the expiry of the cooldown allows a trial request.
C29_LoggedLevelsAndOrder == LoggedAs("warning")

\* What the code does: the same, with the expiry of the cooldown logged at info.
LoggedLevelsAndOrderOfCode == LoggedAs("info")

\* The last operation was a set, on a cache with a size limit, that obeyed the LRU
\* rule: of a key not cached, with max_size entries cached, it evicted exactly the
\* entry whose last access (get hit or set) was the oldest and kept all others; of a
\* key already cached, it evicted nothing.
SetObeyedLru ==
  (cache_hist.op = "set" /\ cache.max_size > 0)
  => /\ (~cache_hist.present /\ Cardinality(cache_hist.before) = cache.max_size)
          => KeysOf(cache.data)
               = (cache_hist.before \ {cache_hist.lru}) \cup {cache_hist.key}
     /\ cache_hist.present => KeysOf(cache.data) = cache_hist.before

\* C22, as stated: every set on a cache with max_size > 0 obeys the LRU rule.
C22_LruEviction == SetObeyedLru

\* What the code does: a set obeys the LRU rule when the time.time() stamps of the
\* cached entries all differ, that is when the clock advanced between the accesses.
LruEvictionWithDistinctStamps == cache_hist.distinct => SetObeyedLru

\* A set at capacity evicted one entry whose stamps all differed.
LruEvictionReached ==
  /\ cache_hist.op = "set"
  /\ cache.max_size = 2
  /\ ~cache_hist.present
  /\ Cardinality(cache_hist.before) = 2
  /\ cache_hist.distinct
  /\ cache_hist.lru \notin KeysOf(cache.data)

\* The callback given to once has been invoked at most once, and once it has been
\* invoked its wrapper is no longer registered.
OnceAtMostOnce ==
  \A n \in 1..MaxOnce :
    /\ events_hist.invoked[n] =< 1
    /\ events_hist.invoked[n] >= 1
         => \A i \in 1..Len(listeners) : listeners[i] # Wrapper(n)

\* C23, as stated: a listener registered with once is invoked at most once over any
\* sequence of emits, emits issued concurrently from several threads included, and
\* is no longer registered after its first invocation.
C23_OnceAtMostOnce == OnceAtMostOnce

\* What the code does: the same when no emit began while another was running.
OnceAtMostOnceSequential == ~events_hist.overlapped => OnceAtMostOnce

\* The callback of once was invoked by an emit that ran alone.
OnceInvokedSequentially == events_hist.invoked[1] = 1 /\ ~events_hist.overlapped

\* A caller has made a transport invocation (line 148) whose outcome has not
\* arrived yet: its exchange is outstanding.
JustInvoked(t) == call[t].pc = "mr149"

\* C31, as stated: no transport invocation is made while the circuit is open, the
\* remaining attempts of the call whose failure opened it included.
C31_NoInvocationWhileOpen ==
  \A t \in env.callers :
    JustInvoked(t) => ~still_open(circuit_open_until, now)

\* What the code does: the first attempt of a call is not made while the circuit is
\* open (the check of line 127 precedes the loop, nothing re-checks inside it).
FirstInvocationNotWhileOpen ==
  \A t \in env.callers :
    (JustInvoked(t) /\ call[t].attempt = 0) => ~still_open(circuit_open_until, now)


\* C32, as stated: once the circuit is open it stays open for the whole cooldown;
\* no step clears circuit_open_until while the clock is below it.
C32_OpenForWholeCooldown ==
  [][still_open(circuit_open_until, now) => circuit_open_until' # 0]_vars

\* C32, amended: a call whose circuit check (line 60) finds its clock reading below
\* circuit_open_until is rejected with CircuitBreakerOpen and invokes no transport;
\* and circuit_open_until is cleared only by line 66 of a circuit check, reached
\* when the clock reading of line 63 was not below the value the field then held,
\* or by a successful exchange (line 89), that of a retry attempt or of a call of
\* another caller that was already in flight included.
C32_OpenUntilExpiryOrSuccess ==
  [][ /\ \A t \in env.callers :
           /\ ( /\ call[t].pc = "cio60b" /\ call[t].op = "request"
                /\ call[t].clock < circuit_open_until
                /\ call'[t].pc # "cio60b" )
              => call'[t].pc = "mr128"
           /\ (call[t].pc = "mr128" /\ call'[t].pc # "mr128")
              => call'[t].pc = "mr128c"
           /\ (call[t].pc = "mr128c" /\ call'[t].pc # "mr128c")
              => ( /\ call'[t].pc = "done"
                   /\ call'[t].ret = "CircuitBreakerOpen"
                   /\ call'[t].inv = 0 )
      /\ (circuit_open_until # 0 /\ circuit_open_until' = 0)
         => \E t \in env.callers :
              \/ call[t].pc = "cio66" /\ call'[t].pc # "cio66"
              \/ call[t].pc = "rs89" /\ call'[t].pc = "mr151" ]_vars

\* C32 witness: one caller is being refused on a cooldown that the clock has not
\* passed, and the successful exchange of the other caller, admitted before the
\* circuit opened, has cleared circuit_open_until in the meantime.
C32_Witness ==
  \E t, u \in env.callers :
    /\ t # u
    /\ call[t].pc = "mr128"
    /\ now < call[t].open_seen
    /\ call[u].pc = "mr151"
    /\ call[u].admitted = "closed"
    /\ circuit_open_until = 0

\* failure_streak before the last attempt of caller t was made: what it was when the
\* response arrived (line 148), or when _record_failure was entered for an exchange
\* that raised (nothing writes it in between, with one caller).
StreakBeforeAttempt(t) ==
  IF call[t].body # "none" THEN call[t].seen_fc ELSE call[t].rec_from

\* C33, as stated: each failed attempt, a malformed response body included, leaves
\* failure_streak one above its value before the attempt, or opens the circuit.
C33_FailureRaisesStreakByOne ==
  \A t \in env.callers :
    (call[t].pc = "mr165" \/ (AtDone(t) /\ call[t].ret \in ExchangeErrors))
    => \/ /\ failure_count = StreakBeforeAttempt(t) + 1
          /\ failure_count < circuit_breaker_threshold
       \/ /\ StreakBeforeAttempt(t) + 1 >= circuit_breaker_threshold
          /\ failure_count = 0
          /\ hist.opened_at # 0
          /\ circuit_open_until = hist.opened_at + circuit_breaker_reset

\* What the code does: an attempt that raised in the exchange (148-149: no response,
\* a status error, a timeout, a body that is not UTF-8) leaves the streak one above
\* its value before the attempt or opens the circuit; an attempt whose body was
\* decoded and did not parse leaves the streak at 1 below a threshold of 2 or more,
\* whatever it was before.
FailureRaisesStreakOfCode ==
  \A t \in env.callers :
    (call[t].pc = "mr165" \/ (AtDone(t) /\ call[t].ret \in ExchangeErrors))
    => IF call[t].body = "none"
       THEN \/ /\ failure_count = call[t].rec_from + 1
               /\ failure_count < circuit_breaker_threshold
            \/ /\ call[t].rec_from + 1 = circuit_breaker_threshold
               /\ failure_count = 0
               /\ hist.opened_at # 0
       ELSE /\ call[t].ret = "JSONDecodeError"
            /\ call[t].rec_from = 0
            /\ failure_count = (IF circuit_breaker_threshold = 1 THEN 0 ELSE 1)

\* C34: failures of retry attempts inside one call count toward the threshold like
\* failures of separate calls, and the call whose failure opens the circuit still
\* ends with its own error.  A call that ends with an error the transport raised
\* has recorded every one of its invocations; the streak it leaves is the streak it
\* found plus its invocations, counted modulo the threshold; the circuit has been
\* opened by this call exactly when that sum reached the threshold; and the call
\* raises the error of its last exchange, never CircuitBreakerOpen, which only a
\* call that invoked nothing raises.
C34_RetryFailuresCountAndOwnErrorRaised ==
  \A t \in env.callers :
    /\ (AtDone(t) /\ call[t].ret \in Raised)
       => /\ call[t].ret = call[t].error
          /\ call[t].recs = call[t].inv
          /\ failure_count = (call[t].pre_fc + call[t].inv) % circuit_breaker_threshold
          /\ IF call[t].pre_fc + call[t].inv >= circuit_breaker_threshold
             THEN /\ hist.opened_at >= call[t].t60
                  /\ circuit_open_until = hist.opened_at + circuit_breaker_reset
             ELSE /\ hist.opened_at = 0
                  /\ circuit_open_until = 0
    /\ (AtDone(t) /\ call[t].ret = "CircuitBreakerOpen")
       => (call[t].inv = 0 /\ call[t].recs = 0)

\* C34 witness: with max_retries + 1 = circuit_breaker_threshold = 3, on a client
\* with streak 0 and the circuit closed, one call whose three exchanges all raise
\* URLError has opened the circuit, and raises URLError.
C34_Witness ==
  /\ max_retries = 2
  /\ circuit_breaker_threshold = 3
  /\ AtDone(1)
  /\ call[1].pre_fc = 0
  /\ call[1].pre_until = 0
  /\ call[1].all_transport
  /\ call[1].inv = 3
  /\ call[1].ret = "URLError"
  /\ hist.opened_at # 0
  /\ circuit_open_until # 0
  /\ failure_count = 0

\* The sleeps of the calls of the one caller, with `retryable` the errors after which
\* a sleep may follow: a call that has ended slept once less than it invoked the
\* transport (not at all when it was rejected and invoked nothing); a call is
\* suspended in a sleep (line 165) only after an attempt that failed with a
\* retryable error and with an attempt left; it has not slept before its first
\* attempt, and it has slept once per earlier attempt when a later one starts.
SleepsBetweenAttempts(retryable(_)) ==
  \A t \in env.callers :
    /\ AtDone(t) =>
         call[t].sleeps = (IF call[t].inv = 0 THEN 0 ELSE call[t].inv - 1)
    /\ (AtDone(t) /\ call[t].ret = "CircuitBreakerOpen") => call[t].inv = 0
    /\ call[t].pc = "mr165" =>
         /\ call[t].error # "none"
         /\ retryable(call[t].error)
         /\ call[t].attempt < max_retries
         /\ call[t].sleeps = call[t].inv - 1
    /\ call[t].pc = "mr148" => call[t].sleeps = call[t].attempt
    /\ call[t].sleeps =< call[t].attempt

\* C35, as stated: the backoff sleeps of a call number its transport invocations
\* minus one; a sleep occurs only between a failed retryable attempt and the next
\* attempt, never after an error the retry policy does not retry (a 4xx status, a
\* malformed body), after the last allowed attempt, after a success, before the
\* first attempt or on a rejection.
C35_SleepsBetweenAttempts == SleepsBetweenAttempts(RetryableByPolicy)

\* What the code does: the same, with the errors _should_retry accepts (a 4xx
\* status among them) in place of those of the retry policy.
SleepsBetweenAttemptsOfCode == SleepsBetweenAttempts(should_retry)

\* C36, as stated, its first half: under any interleaving with the calls of another
\* caller, a snapshot returned by get_resilience_state that reports circuit_open =
\* true reports a circuit_open_until that is set.
C36_SnapshotConsistent ==
  \A t \in env.callers :
    (call[t].pc = "done" /\ call[t].op = "state" /\ call[t].snap_open)
    => call[t].snap_until # 0

\* What the code does: the snapshot of a caller alone on the client is consistent;
\* it reports the state the client is in, and circuit_open = true only with a
\* circuit_open_until that is set and that the clock had not passed at the check.
SnapshotConsistentAlone ==
  \A t \in env.callers :
    (call[t].pc = "done" /\ call[t].op = "state")
    => /\ call[t].snap_fc = failure_count
       /\ call[t].snap_open <=> (call[t].snap_until # 0 /\ call[t].t60 < call[t].snap_until)
       /\ call[t].snap_open => call[t].snap_until = circuit_open_until

\* C37: cache size bound.  At every moment a cache with max_size > 0 stores at most
\* max_size entries, each key once; and after any sequence of set, get, delete,
\* clear and cleanup_expired of any number of threads, that is whenever no thread
\* is inside the locked part of an operation, the keys tracked for access order are
\* the stored keys, each once.
C37_CacheSizeBound ==
  /\ cache.max_size > 0 => Len(cache.data) =< cache.max_size
  /\ Cardinality(KeysOf(cache.data)) = Len(cache.data)
  /\ ~LockHeld
     => /\ KeysOf(cache.access_order) = KeysOf(cache.data)
        /\ Len(cache.access_order) = Len(cache.data)

\* C37 witness: a set of a new key on a full cache (max_size entries stored) has
\* evicted one entry and left the cache full again.
C37_Witness ==
  /\ cache.max_size = MaxSize
  /\ cache_hist.op = "set"
  /\ ~cache_hist.present
  /\ Cardinality(cache_hist.before) = cache.max_size
  /\ Len(cache.data) = cache.max_size
  /\ cache_hist.key \in KeysOf(cache.data)

=============================================================================
